---- MODULE Spec2Model ----
(***************************************************************************)
(* A model of the quiz application: the weighted question sampler          *)
(* and the practice session of components/Questioner.tsx, the stats        *)
(* accumulator and the mock exam history of firebase.ts running against    *)
(* the remote document store, the dashboard, the mock exam history view,   *)
(* the review queue of AdminConfig.tsx, the form of AddQuestion.tsx and    *)
(* the question normalizers of the components.                             *)
(*                                                                         *)
(* Numbers.  The sampler computes with IEEE doubles.  The model computes   *)
(* with exact rationals n/d extended by +Infinity, -Infinity and NaN, so   *)
(* that a division by zero or an Infinity - Infinity behaves as it does in *)
(* JavaScript; rounding of finite values is not modelled.  The damping     *)
(* factor 0.35 is the rational BlendNum/BlendDen = 7/20.                   *)
(***************************************************************************)
EXTENDS Integers, Sequences, FiniteSets, TLC

VARIABLES
    \* --- the sampler applied to one set of arguments (SpecSampler)
    questionsArg,      \* questions: QuestionItem[]
    userStatsArg,      \* userStatsByQuestion
    generalStatsArg,   \* generalStatsByQuestion
    excludedArg,       \* excludedQuestionId ("" when not given)
    randomArg,         \* Math.random() = randomArg / RandSteps
    picked,            \* the value returned
    samplerPc,         \* "args" before the call, "returned" after it
    \* --- the weight of one question through load and answers (SpecWeight)
    storedUserStats,   \* payload of questionStats/users/{userKey}
    storedGeneralStats,\* payload of questionStats/general
    loadedUserStats,   \* userStatsByQuestion
    loadedGeneralStats,\* generalStatsByQuestion
    answersGiven,      \* answers recorded since the load
    weight,            \* getQuestionWeight of the weighed question
    weightPc,          \* "stored", "loaded", "weighed"
    \* --- the remote store and the saveQuestionAttempt calls in flight
    remoteGeneral,     \* questionStats/general/{questionId}/{correct|wrong}
    remoteUsers,       \* questionStats/users/{userKey}/{questionId}/{correct|wrong}
    calls,             \* the saveQuestionAttempt calls issued, in order
    generalBefore,     \* remoteGeneral before the first call (never changes)
    usersBefore,       \* remoteUsers before the first call (never changes)
    lastOp,            \* the operation that took the last step
    \* --- the practice view (component Questioner of Questioner.tsx)
    storedQuestions,   \* what questions/{categoryKey} yield, normalized, in order
    sessionUserKey,    \* getCurrentUserKey() ("" when nobody is logged in)
    questions,
    activeFilter,
    isMultiSelectEnabled,
    selectedCategories,
    currentQuestion,
    selectedIndex,
    userStatsByQuestion,
    generalStatsByQuestion,
    isLoading,
    error,             \* TRUE when the error message is set
    effectDue,         \* the deps [filteredQuestions, selectedIndex] changed
                       \* since the effect on them last ran
    nextFrom,          \* id of the question left by Next Question, "" when
                       \* the last handler was another one
    \* --- the dashboard (component QuestionsDashboard)
    remoteQuestions,   \* questions/{categoryKey}: the payload of each category
    dashboardQuestions,\* its state questions: the rows, in display order
    dashboardIsLoading,
    dashboardError,    \* TRUE when the error message is set
    \* --- the mock exam history (component MockExamHistory) of one browser
    userEmail,         \* the user logged in ("" for null)
    remoteHistory,     \* mockExamHistory/users/{userKey}: entries [id, record]
    savedRecords,      \* the records handed to the saveMockExamRecord calls
                       \* that resolved; the i-th is stored under key i
    history,
    selectedAttemptId,
    retakeAnswers,
    isRetakeMode,
    isSavingRetake,
    historyIsLoading,
    historyError,      \* TRUE when the error message is set
    \* --- the review queue of one admin session (component AdminConfig)
    remotePending,     \* pendingQuestions/: the ids of the questions stored
    remotePublished,   \* questions/: the published questions, in push order
    pendingQuestions,
    isLoadingPending,
    pendingMessage,    \* "" for null
    processingQuestionId,
    inFlight,          \* the approve and reject operations not yet settled
    adminStarted,      \* approve and reject operations started so far
    adminLastOp,       \* how the handler that ran last ended, and on which id
    \* --- a normalizer applied to one stored question (SpecNormalize)
    rawValue,          \* the value stored under questions/ or pendingQuestions/
    normalizedBy,      \* the component whose normalizer was applied ("" before)
    normalized,        \* the questions it returned
    \* --- the form of component AddQuestion in one browser
    isAdmin,
    submissionsOpen,
    entryMode,
    formQuestion,      \* question
    formOptions,       \* options
    formCorrectIndex,  \* correctIndex
    bulkQuestionsText, \* its lines, each the sequence of its "|" columns
    isSaving,
    postsInFlight,     \* the POST requests of the submission in progress
    written,           \* questions/ and pendingQuestions/: what was posted
    alertShown,        \* the message of the last alert ("" before any)
    submitCalls,       \* handleSubmit calls so far
    \* --- the requests of Questioner's fetchQuestions, one by one (SpecLoad)
    requests,          \* request |-> "pending", "ok" or "failed"
    joined,            \* how the await of Promise.all ended ("pending" before)
    \* --- toUserKey applied to one email (SpecUserKey)
    emailArg,          \* email, the sequence of its characters
    userKeyResult,     \* the key returned
    userKeyPc,         \* "call" before the call, "done" after it
    \* --- the practice view with masteries and auto-advance (SpecAuto)
    autoQuestions,     \* questions
    autoFilter,        \* activeFilter
    autoCurrent,       \* currentQuestion (NoQuestion for null)
    autoSelected,      \* selectedIndex (NoSelection for null)
    masteryByQuestion, \* question id |-> mastery
    autoIsLoading,     \* isLoading
    timers,            \* the timers set and neither fired nor cleared
    answerTimeoutRef,  \* answerTimeoutRef.current (0 for null)
    timersSet,         \* timers set so far; ids count from 1
    answerLog,         \* question id |-> answers given to it in the session
    autoAnswers,       \* answers given so far
    \* --- the editor of the questions dashboard (SpecEdit)
    editStored,        \* category |-> the record under questions/{category}/{id}
    editRows,          \* the rows of the question loaded by fetchDashboardData
    editor,            \* editor (NoEditor for null)
    editIsSaving,      \* isSaving
    saveInFlight,      \* the request handleSaveQuestion awaits, its editor
    editNow,           \* Date.now()
    editBefore,        \* the record stored when the save in flight began
    editLastOp,        \* how the last handleSaveQuestion call went
    editSaves,         \* handleSaveQuestion calls so far
    \* --- the mock exam builder, with the history page (SpecExam)
    currentPage,       \* currentPage of App: "mock-exam" or "history"
    allQuestions,      \* allQuestions
    examSelectedCategories, \* selectedCategories of MockExam
    questionCount,     \* questionCount
    examPaper,         \* examQuestions
    examAnswers,       \* answers: question id |-> option index
    isSubmitted,       \* isSubmitted
    isSavingResult,    \* isSavingResult
    examPending,       \* the record whose saveMockExamRecord is awaited
    examIsLoading      \* isLoading of MockExam

samplerVars ==
    <<questionsArg, userStatsArg, generalStatsArg, excludedArg, randomArg,
      picked, samplerPc>>

weightVars ==
    <<storedUserStats, storedGeneralStats, loadedUserStats, loadedGeneralStats,
      answersGiven, weight, weightPc>>

storeVars ==
    <<remoteGeneral, remoteUsers, calls, generalBefore, usersBefore, lastOp>>

practiceVars ==
    <<storedQuestions, sessionUserKey, questions, activeFilter,
      isMultiSelectEnabled, selectedCategories, currentQuestion, selectedIndex,
      userStatsByQuestion, generalStatsByQuestion, isLoading, error, effectDue,
      nextFrom>>

dashboardVars ==
    <<remoteQuestions, dashboardQuestions, dashboardIsLoading, dashboardError>>

historyVars ==
    <<userEmail, remoteHistory, savedRecords, history, selectedAttemptId,
      retakeAnswers, isRetakeMode, isSavingRetake, historyIsLoading,
      historyError>>

adminVars ==
    <<remotePending, remotePublished, pendingQuestions, isLoadingPending,
      pendingMessage, processingQuestionId, inFlight, adminStarted,
      adminLastOp>>

normalizeVars == <<rawValue, normalizedBy, normalized>>

addVars ==
    <<isAdmin, submissionsOpen, entryMode, formQuestion, formOptions,
      formCorrectIndex, bulkQuestionsText, isSaving, postsInFlight, written,
      alertShown, submitCalls>>

\* The views that write questions, and the normalizers reading them.
formVars == <<adminVars, normalizeVars, addVars>>

loadVars == <<requests, joined>>

keyVars == <<emailArg, userKeyResult, userKeyPc>>

\* The user key derivation and the remaining components.
autoVars ==
    <<autoQuestions, autoFilter, autoCurrent, autoSelected, masteryByQuestion,
      autoIsLoading, timers, answerTimeoutRef, timersSet, answerLog,
      autoAnswers>>

editVars ==
    <<editStored, editRows, editor, editIsSaving, saveInFlight, editNow,
      editBefore, editLastOp, editSaves>>

examVars ==
    <<currentPage, allQuestions, examSelectedCategories, questionCount,
      examPaper, examAnswers, isSubmitted, isSavingResult, examPending,
      examIsLoading>>

otherVars == <<keyVars, autoVars, editVars, examVars>>

\* The groups every view of otherVars leaves alone.
coreVars ==
    <<samplerVars, weightVars, storeVars, practiceVars, dashboardVars,
      historyVars, formVars, loadVars>>

notKey == <<coreVars, autoVars, editVars, examVars>>
notAuto == <<coreVars, keyVars, editVars, examVars>>
notEdit == <<coreVars, keyVars, autoVars, examVars>>
\* The exam builder shares the history group with the history page.
notExam ==
    <<samplerVars, weightVars, storeVars, practiceVars, dashboardVars,
      formVars, loadVars, keyVars, autoVars, editVars>>

\* The views other than the practice view, and the requests of its load.
viewVars == <<dashboardVars, historyVars, formVars, loadVars, otherVars>>

vars == <<samplerVars, weightVars, storeVars, practiceVars, viewVars>>

\* What each specification leaves alone.
notSampler == <<weightVars, storeVars, practiceVars, viewVars>>
notWeight == <<samplerVars, storeVars, practiceVars, viewVars>>
notStore == <<samplerVars, weightVars, practiceVars, viewVars>>
notPractice == <<samplerVars, weightVars, viewVars>>
notDashboard ==
    <<samplerVars, weightVars, storeVars, practiceVars, historyVars, formVars,
      loadVars, otherVars>>
notHistory ==
    <<samplerVars, weightVars, storeVars, practiceVars, dashboardVars, formVars,
      loadVars, otherVars>>
notAdmin ==
    <<samplerVars, weightVars, storeVars, practiceVars, dashboardVars,
      historyVars, normalizeVars, addVars, loadVars,
      otherVars>>
notNormalize ==
    <<samplerVars, weightVars, storeVars, practiceVars, dashboardVars,
      historyVars, adminVars, addVars, loadVars,
      otherVars>>
notAdd ==
    <<samplerVars, weightVars, storeVars, practiceVars, dashboardVars,
      historyVars, adminVars, normalizeVars, loadVars,
      otherVars>>

(***************************************************************************)
(* Bounds                                                                  *)
(***************************************************************************)
\* Math.random() is drawn from {0, 1/RandSteps, ..., (RandSteps-1)/RandSteps}.
RandSteps == 3
\* The largest counter value a stored payload holds.
MaxCount == 2
\* Answers recorded in one session.
MaxAnswers == 2
\* saveQuestionAttempt calls issued by the clients of SpecStore.
MaxCalls == 2
\* By how much a count is raised when two weights are compared.
MaxRaise == 2
\* Attempts stored in the mock exam history of the user.
MaxAttempts == 2
\* Approve and reject operations started in one admin session.
MaxOps == 2
\* Lines of the bulk text of the AddQuestion form.
MaxRows == 2
\* handleSubmit calls on one AddQuestion form.
MaxSubmits == 2
\* Characters of the email handed to toUserKey.
MaxEmail == 3

(***************************************************************************)
(* Program constants                                                       *)
(***************************************************************************)
\* 0.35 = BlendNum / BlendDen
BlendNum == 7
BlendDen == 20

\* Question ids (keys of the store) and the categories of the bank.
Ids == {"a", "b", "c"}
QUESTION_CATEGORIES == <<"General Information", "Verbal Ability">>
ALL_CATEGORIES == "All Categories"
Categories == {QUESTION_CATEGORIES[i] : i \in DOMAIN QUESTION_CATEGORIES}

\* User keys (toUserKey of an email); "" is the missing key (null).
UserKeys == {"u1", "u2"}
Fields == {"correct", "wrong"}

\* A QuestionItem; every question of the model has two options.
Question(id, category, correctIndex) ==
    [id |-> id, category |-> category, correctIndex |-> correctIndex]

\* null, where the code holds a QuestionItem | null
NoQuestion == Question("", "", 0)

\* null, where the code holds an option index | null
NoSelection == -1
\* null, where the code holds the id of an attempt | null (ids count from 1)
NoAttempt == 0
\* The option indices of a question.
OptionIndices == {0, 1}

\* The normalized questions the store can yield: id "a" is a key under both
\* categories (keys are unique within a category only).
Bank ==
    { Question("a", "General Information", 0),
      Question("b", "General Information", 1),
      Question("a", "Verbal Ability", 1),
      Question("c", "Verbal Ability", 0) }

(***************************************************************************)
(* JSON values of a stored counter, and JavaScript's Number(v ?? 0)        *)
(***************************************************************************)
Absent == [t |-> "absent", v |-> 0]      \* undefined / null
Garbage == [t |-> "string", v |-> 0]     \* a value Number() turns into NaN
Num(n) == [t |-> "number", v |-> n]

\* Number.isFinite(Number(v ?? 0)) ? Number(v ?? 0) : fallback
FiniteOr(v, fallback) ==
    IF v.t = "number" THEN v.v
    ELSE IF v.t = "absent" THEN 0
    ELSE fallback

ZeroStat == [correct |-> 0, wrong |-> 0]

normalizeQuestionStats(payload) ==
    [id \in DOMAIN payload |->
        [correct |-> FiniteOr(payload[id].correct, 0),
         wrong   |-> FiniteOr(payload[id].wrong, 0)]]

\* statsByQuestion[questionId] ?? { correct: 0, wrong: 0 }
StatOf(statsByQuestion, questionId) ==
    IF questionId \in DOMAIN statsByQuestion
    THEN statsByQuestion[questionId]
    ELSE ZeroStat

\* { ...stat, correct: stat.correct + 1 } or { ...stat, wrong: stat.wrong + 1 }
Bumped(stat, answeredCorrectly) ==
    IF answeredCorrectly
    THEN [stat EXCEPT !.correct = @ + 1]
    ELSE [stat EXCEPT !.wrong = @ + 1]

\* { ...statsByQuestion, [questionId]: stat }
WithStat(statsByQuestion, questionId, stat) ==
    [id \in DOMAIN statsByQuestion \cup {questionId} |->
        IF id = questionId THEN stat ELSE statsByQuestion[id]]

\* The in-memory update of handleAnswerSelect, the same for both maps.
RecordInMemory(statsByQuestion, questionId, answeredCorrectly) ==
    WithStat(statsByQuestion, questionId,
             Bumped(StatOf(statsByQuestion, questionId), answeredCorrectly))

(***************************************************************************)
(* Doubles: exact rationals with Infinity and NaN                          *)
(***************************************************************************)
Fin(n, d) == [k |-> "fin", n |-> n, d |-> d]      \* n/d, d > 0
PInf == [k |-> "pinf", n |-> 0, d |-> 1]
NInf == [k |-> "ninf", n |-> 0, d |-> 1]
NaN == [k |-> "nan", n |-> 0, d |-> 1]

RECURSIVE GCD(_, _)
GCD(a, b) == IF b = 0 THEN a ELSE GCD(b, a % b)

Abs(n) == IF n < 0 THEN -n ELSE n

\* n/d in lowest terms (the same number; keeps the integers small)
Reduced(n, d) ==
    LET g == GCD(Abs(n), d) IN Fin(n \div g, d \div g)

\* n / d for integers n, d
XDivInt(n, d) ==
    IF d > 0 THEN Reduced(n, d)
    ELSE IF d < 0 THEN Reduced(-n, -d)
    ELSE IF n > 0 THEN PInf
    ELSE IF n < 0 THEN NInf
    ELSE NaN

XNeg(a) ==
    CASE a.k = "fin" -> Fin(-a.n, a.d)
      [] a.k = "pinf" -> NInf
      [] a.k = "ninf" -> PInf
      [] OTHER -> NaN

XAdd(a, b) ==
    CASE a.k = "nan" \/ b.k = "nan" -> NaN
      [] a.k = "fin" /\ b.k = "fin" ->
            LET g == GCD(a.d, b.d)
            IN  Reduced(a.n * (b.d \div g) + b.n * (a.d \div g),
                        a.d * (b.d \div g))
      [] a.k = "fin" -> b
      [] b.k = "fin" -> a
      [] a.k = b.k -> a
      [] OTHER -> NaN

XSub(a, b) == XAdd(a, XNeg(b))

\* a * b for a finite a >= 0
XMul(a, b) ==
    CASE b.k = "nan" -> NaN
      [] b.k = "fin" ->
            LET x == Reduced(a.n, b.d)
                y == Reduced(b.n, a.d)
            IN  Fin(x.n * y.n, x.d * y.d)
      [] a.n = 0 -> NaN
      [] OTHER -> b

\* a <= 0
XLeqZero(a) ==
    CASE a.k = "fin" -> a.n <= 0
      [] a.k = "ninf" -> TRUE
      [] OTHER -> FALSE

(***************************************************************************)
(* The stats-based sampler (Questioner.tsx)                                *)
(***************************************************************************)
\* Mutant: the numerator is not smoothed by the + 1.
getQuestionWeightUnsmoothed(questionId, userMap, generalMap) ==
    LET userStats == StatOf(userMap, questionId)
        generalStats == StatOf(generalMap, questionId)
        weightedCorrect == BlendDen * userStats.correct + BlendNum * generalStats.correct
        weightedWrong == BlendDen * userStats.wrong + BlendNum * generalStats.wrong
    IN  XDivInt(weightedWrong, weightedCorrect + BlendDen)

getQuestionWeight(questionId, userMap, generalMap) ==
    LET userStats == StatOf(userMap, questionId)
        generalStats == StatOf(generalMap, questionId)
        \* BlendDen * weightedCorrect and BlendDen * weightedWrong
        weightedCorrect == BlendDen * userStats.correct + BlendNum * generalStats.correct
        weightedWrong == BlendDen * userStats.wrong + BlendNum * generalStats.wrong
    IN  XDivInt(weightedWrong + BlendDen, weightedCorrect + BlendDen)

\* items.filter(keep), in order
RECURSIVE FilterOut(_, _)
FilterOut(items, excludedQuestionId) ==
    IF items = <<>> THEN <<>>
    ELSE IF Head(items).id # excludedQuestionId
         THEN <<Head(items)>> \o FilterOut(Tail(items), excludedQuestionId)
         ELSE FilterOut(Tail(items), excludedQuestionId)

\* Mutant: the length test of the exclusion is dropped.
ExclusionAppliesToSingleton(items, excludedQuestionId) ==
    excludedQuestionId # ""

\* excludedQuestionId && questions.length > 1
ExclusionApplies(items, excludedQuestionId) ==
    excludedQuestionId # "" /\ Len(items) > 1

\* Mutant: the excluded question stays in the pool.
SamplerPoolUnfiltered(items, excludedQuestionId) == items

SamplerPool(items, excludedQuestionId) ==
    IF ExclusionApplies(items, excludedQuestionId)
    THEN FilterOut(items, excludedQuestionId)
    ELSE items

WeightedPool(pool, userMap, generalMap) ==
    [i \in DOMAIN pool |->
        [question |-> pool[i],
         weight |-> getQuestionWeight(pool[i].id, userMap,
                                      generalMap)]]

\* weightedPool.reduce((sum, item) => sum + item.weight, 0)
RECURSIVE TotalWeight(_, _)
TotalWeight(weightedPool, n) ==
    IF n = 0 THEN Fin(0, 1)
    ELSE XAdd(TotalWeight(weightedPool, n - 1), weightedPool[n].weight)

\* Mutant: the loop stops only once the remainder is below zero.
RECURSIVE RouletteStrict(_, _, _)
RouletteStrict(weightedPool, i, randomPoint) ==
    IF i > Len(weightedPool)
    THEN weightedPool[Len(weightedPool)].question
    ELSE LET rest == XSub(randomPoint, weightedPool[i].weight)
         IN  IF rest.k = "ninf" \/ (rest.k = "fin" /\ rest.n < 0)
             THEN weightedPool[i].question
             ELSE RouletteStrict(weightedPool, i + 1, rest)

\* The loop over weightedPool from item i on, randomPoint being what is left.
RECURSIVE Roulette(_, _, _)
Roulette(weightedPool, i, randomPoint) ==
    IF i > Len(weightedPool)
    THEN weightedPool[Len(weightedPool)].question
    ELSE LET rest == XSub(randomPoint, weightedPool[i].weight)
         IN  IF XLeqZero(rest)
             THEN weightedPool[i].question
             ELSE Roulette(weightedPool, i + 1, rest)

\* random is the numerator of Math.random() = random / RandSteps.
getWeightedRandomQuestion(items, userStats, generalStats, excludedQuestionId, random) ==
    IF Len(items) = 0 THEN NoQuestion
    ELSE LET pool == SamplerPool(items, excludedQuestionId)
         IN  IF Len(pool) = 0 THEN NoQuestion
             ELSE LET weightedPool == WeightedPool(pool, userStats, generalStats)
                      totalWeight == TotalWeight(weightedPool, Len(weightedPool))
                      randomPoint == XMul(Fin(random, RandSteps), totalWeight)
                  IN  Roulette(weightedPool, 1, randomPoint)

(***************************************************************************)
(* The arguments of the sampler: question lists and stored stats           *)
(***************************************************************************)
\* Lists of questions no two of which are the same record of the store.
RECURSIVE Arrangements(_)
Arrangements(S) ==
    {<<>>} \cup
    UNION { { <<q>> \o rest : rest \in Arrangements(S \ {q}) } : q \in S }

QuestionLists == Arrangements(Bank)

\* What a stored counter can hold.
StoredCounters == {Absent, Garbage, Num(-1), Num(MaxCount)}

StoredStats == [correct : StoredCounters, wrong : StoredCounters]

\* Stored stats payloads holding the record of at most one question.
StatsPayloads ==
    {<<>>} \cup UNION { [{id} -> StoredStats] : id \in Ids }

(***************************************************************************)
(* The remote store and saveQuestionAttempt (firebase.ts)                  *)
(*                                                                         *)
(* runTransaction(ref, update) is the database's optimistic transaction:   *)
(* the client runs update on the value it has seen and sends the result    *)
(* with that value; the server writes it only if the path still holds the  *)
(* value seen, and otherwise hands back the current value for another run. *)
(***************************************************************************)
EmptyCounters == [correct |-> Absent, wrong |-> Absent]
EmptyGeneral == [id \in Ids |-> EmptyCounters]
EmptyUsers == [userKey \in UserKeys |-> [id \in Ids |-> EmptyCounters]]

\* snapshot.val() of a stats node: the questions with a counter under them
\* (snapshot.exists() is false, and the payload {}, when there is none).
SnapshotOf(node) ==
    [id \in {x \in DOMAIN node :
                node[x].correct # Absent \/ node[x].wrong # Absent} |-> node[id]]

\* A call, about to run its first transaction.
NewCall(questionId, answeredCorrectly, userKey) ==
    [questionId |-> questionId,
     field |-> IF answeredCorrectly THEN "correct" ELSE "wrong",
     userKey |-> userKey,
     pc |-> "general_read",
     seen |-> Absent,
     retried |-> FALSE]

InGeneral(call) == call.pc \in {"general_read", "general_commit"}
InUser(call) == call.pc \in {"user_read", "user_commit"}

\* The value under the path of the transaction the call is running.
ServerValue(call) ==
    IF InGeneral(call)
    THEN remoteGeneral[call.questionId][call.field]
    ELSE remoteUsers[call.userKey][call.questionId][call.field]

\* (currentValue) => Number.isFinite(Number(currentValue ?? 0)) ? current + 1 : 1
TransactionUpdate(currentValue) ==
    IF currentValue.t = "string" THEN Num(1)
    ELSE Num(FiniteOr(currentValue, 0) + 1)

\* Mutant: the user transaction is never run.
AfterGeneralSkipUser(userKey) == "done"

\* if (!userKey) return; else the second transaction
AfterGeneral(userKey) ==
    IF userKey = "" THEN "done" ELSE "user_read"

\* Mutant: the server writes whatever the client sends.
ServerAcceptsBlindly(call) == TRUE

\* The server's test of a transaction: the path still holds the value seen.
ServerAccepts(call) == ServerValue(call) = call.seen

\* The client gets the value of the path and runs the update on it.
TxnRead(i) ==
    /\ calls[i].pc \in {"general_read", "user_read"}
    /\ calls' = [calls EXCEPT
                   ![i].seen = ServerValue(calls[i]),
                   ![i].pc = IF InGeneral(calls[i]) THEN "general_commit"
                             ELSE "user_commit"]
    /\ lastOp' = "runTransaction"
    /\ UNCHANGED <<remoteGeneral, remoteUsers, generalBefore, usersBefore>>
    /\ UNCHANGED notStore

\* The server accepts the update: the counter is written and the call goes on.
TxnCommit(i) ==
    /\ calls[i].pc \in {"general_commit", "user_commit"}
    /\ ServerAccepts(calls[i])
    /\ LET call == calls[i]
           next == TransactionUpdate(call.seen)
       IN  IF InGeneral(call)
           THEN /\ remoteGeneral' =
                      [remoteGeneral EXCEPT ![call.questionId][call.field] = next]
                /\ calls' = [calls EXCEPT ![i].pc = AfterGeneral(call.userKey)]
                /\ UNCHANGED remoteUsers
           ELSE /\ remoteUsers' =
                      [remoteUsers EXCEPT
                          ![call.userKey][call.questionId][call.field] = next]
                /\ calls' = [calls EXCEPT ![i].pc = "done"]
                /\ UNCHANGED remoteGeneral
    /\ lastOp' = "runTransaction"
    /\ UNCHANGED <<generalBefore, usersBefore>>
    /\ UNCHANGED notStore

\* The server rejects the update and hands back the current value.
TxnRetry(i) ==
    /\ calls[i].pc \in {"general_commit", "user_commit"}
    /\ ~ServerAccepts(calls[i])
    /\ calls' = [calls EXCEPT ![i].seen = ServerValue(calls[i]),
                              ![i].retried = TRUE]
    /\ lastOp' = "runTransaction"
    /\ UNCHANGED <<remoteGeneral, remoteUsers, generalBefore, usersBefore>>
    /\ UNCHANGED notStore

\* The transaction fails (network): the promise rejects, the call ends.
TxnFail(i) ==
    /\ InGeneral(calls[i]) \/ InUser(calls[i])
    /\ calls' = [calls EXCEPT
                   ![i].pc = IF InGeneral(calls[i]) THEN "failed_general"
                             ELSE "failed_user"]
    /\ lastOp' = "runTransaction"
    /\ UNCHANGED <<remoteGeneral, remoteUsers, generalBefore, usersBefore>>
    /\ UNCHANGED notStore

(***************************************************************************)
(* The variables of a part of the model while a specification of another   *)
(* part runs                                                               *)
(***************************************************************************)
SamplerIdle(pc) ==
    /\ questionsArg = <<>>
    /\ userStatsArg = <<>>
    /\ generalStatsArg = <<>>
    /\ excludedArg = ""
    /\ randomArg = 0
    /\ picked = NoQuestion
    /\ samplerPc = pc

WeightIdle(pc) ==
    /\ storedUserStats = <<>>
    /\ storedGeneralStats = <<>>
    /\ loadedUserStats = <<>>
    /\ loadedGeneralStats = <<>>
    /\ answersGiven = 0
    /\ weight = Fin(1, 1)
    /\ weightPc = pc

DashboardIdle ==
    /\ remoteQuestions = <<>>
    /\ dashboardQuestions = <<>>
    /\ dashboardIsLoading = FALSE
    /\ dashboardError = FALSE

HistoryIdle ==
    /\ userEmail = ""
    /\ remoteHistory = <<>>
    /\ savedRecords = <<>>
    /\ history = <<>>
    /\ selectedAttemptId = NoAttempt
    /\ retakeAnswers = <<>>
    /\ isRetakeMode = FALSE
    /\ isSavingRetake = FALSE
    /\ historyIsLoading = FALSE
    /\ historyError = FALSE

\* processingQuestionId === null
NotProcessing == ""

AdminIdle ==
    /\ remotePending = {}
    /\ remotePublished = <<>>
    /\ pendingQuestions = <<>>
    /\ isLoadingPending = FALSE
    /\ pendingMessage = ""
    /\ processingQuestionId = NotProcessing
    /\ inFlight = <<>>
    /\ adminStarted = 0
    /\ adminLastOp = [kind |-> "", id |-> NotProcessing]

NormalizeIdle ==
    /\ rawValue = <<>>
    /\ normalizedBy = ""
    /\ normalized = <<>>

AddIdle ==
    /\ isAdmin = FALSE
    /\ submissionsOpen = TRUE
    /\ entryMode = "single"
    /\ formQuestion = <<>>
    /\ formOptions = <<>>
    /\ formCorrectIndex = NoSelection
    /\ bulkQuestionsText = <<>>
    /\ isSaving = FALSE
    /\ postsInFlight = <<>>
    /\ written = <<>>
    /\ alertShown = ""
    /\ submitCalls = 0

FormsIdle == AdminIdle /\ NormalizeIdle /\ AddIdle

KeyIdle ==
    /\ emailArg = <<>>
    /\ userKeyResult = <<>>
    /\ userKeyPc = "idle"

AutoIdle ==
    /\ autoQuestions = <<>>
    /\ autoFilter = ALL_CATEGORIES
    /\ autoCurrent = NoQuestion
    /\ autoSelected = NoSelection
    /\ masteryByQuestion = <<>>
    /\ autoIsLoading = FALSE
    /\ timers = {}
    /\ answerTimeoutRef = 0
    /\ timersSet = 0
    /\ answerLog = <<>>
    /\ autoAnswers = 0

EditIdle ==
    /\ editStored = <<>>
    /\ editRows = {}
    /\ editor = <<>>
    /\ editIsSaving = FALSE
    /\ saveInFlight = <<>>
    /\ editNow = 0
    /\ editBefore = <<>>
    /\ editLastOp = <<>>
    /\ editSaves = 0

ExamIdle ==
    /\ currentPage = ""
    /\ allQuestions = <<>>
    /\ examSelectedCategories = <<>>
    /\ questionCount = 0
    /\ examPaper = <<>>
    /\ examAnswers = <<>>
    /\ isSubmitted = FALSE
    /\ isSavingResult = FALSE
    /\ examPending = <<>>
    /\ examIsLoading = FALSE

OthersIdle == KeyIdle /\ AutoIdle /\ EditIdle /\ ExamIdle

ViewsIdle == DashboardIdle /\ HistoryIdle /\ FormsIdle /\ OthersIdle

LoadIdle ==
    /\ requests = <<>>
    /\ joined = "pending"

PracticeIdle ==
    /\ LoadIdle
    /\ storedQuestions = <<>>
    /\ sessionUserKey = ""
    /\ questions = <<>>
    /\ activeFilter = ALL_CATEGORIES
    /\ isMultiSelectEnabled = FALSE
    /\ selectedCategories = <<>>
    /\ currentQuestion = NoQuestion
    /\ selectedIndex = NoSelection
    /\ userStatsByQuestion = <<>>
    /\ generalStatsByQuestion = <<>>
    /\ isLoading = FALSE
    /\ error = FALSE
    /\ effectDue = FALSE
    /\ nextFrom = ""

StoreIdle ==
    /\ remoteGeneral = <<>>
    /\ remoteUsers = <<>>
    /\ generalBefore = <<>>
    /\ usersBefore = <<>>
    /\ calls = <<>>
    /\ lastOp = "init"

\* Everything but the views of otherVars is left out.
CoreIdle ==
    /\ SamplerIdle("idle")
    /\ WeightIdle("idle")
    /\ StoreIdle
    /\ PracticeIdle
    /\ DashboardIdle
    /\ HistoryIdle
    /\ FormsIdle

(***************************************************************************)
(* SpecStore: clients calling saveQuestionAttempt concurrently             *)
(***************************************************************************)
\* What questionStats holds before the calls: one general counter and one
\* user counter may hold a value already.
StoreInit ==
    /\ \E general \in {Absent, Garbage, Num(1)} :
           remoteGeneral = [EmptyGeneral EXCEPT !["a"].correct = general]
    /\ \E user \in {Absent, Num(1)} :
           remoteUsers = [EmptyUsers EXCEPT !["u1"]["a"].correct = user]
    /\ generalBefore = remoteGeneral
    /\ usersBefore = remoteUsers
    /\ calls = <<>>
    /\ lastOp = "init"
    /\ SamplerIdle("idle")
    /\ WeightIdle("idle")
    /\ PracticeIdle
    /\ ViewsIdle

\* A client calls saveQuestionAttempt(questionId, answeredCorrectly, userKey).
saveQuestionAttempt(questionId, answeredCorrectly, userKey) ==
    /\ Len(calls) < MaxCalls
    /\ calls' = Append(calls, NewCall(questionId, answeredCorrectly, userKey))
    /\ lastOp' = "saveQuestionAttempt"
    /\ UNCHANGED <<remoteGeneral, remoteUsers, generalBefore, usersBefore>>
    /\ UNCHANGED notStore

StoreNext ==
    \/ \E questionId \in {"a", "b"}, answeredCorrectly \in BOOLEAN,
          userKey \in {"", "u1"} :
           saveQuestionAttempt(questionId, answeredCorrectly, userKey)
    \/ \E i \in DOMAIN calls : TxnRead(i)
    \/ \E i \in DOMAIN calls : TxnCommit(i)
    \/ \E i \in DOMAIN calls : TxnRetry(i)
    \/ \E i \in DOMAIN calls : TxnFail(i)

SpecStore == StoreInit /\ [][StoreNext]_vars

(***************************************************************************)
(* SpecSampler: the sampler applied to every argument of the bounded sets  *)
(***************************************************************************)
SamplerInit ==
    /\ questionsArg \in QuestionLists
    /\ \E payload \in StatsPayloads :
           userStatsArg = normalizeQuestionStats(payload)
    /\ \E payload \in StatsPayloads :
           generalStatsArg = normalizeQuestionStats(payload)
    /\ excludedArg \in Ids \cup {""}
    /\ randomArg \in 0 .. (RandSteps - 1)
    /\ picked = NoQuestion
    /\ samplerPc = "args"
    /\ WeightIdle("idle")
    /\ StoreIdle
    /\ PracticeIdle
    /\ ViewsIdle

CallSampler ==
    /\ samplerPc = "args"
    /\ picked' = getWeightedRandomQuestion(questionsArg, userStatsArg,
                                           generalStatsArg, excludedArg, randomArg)
    /\ samplerPc' = "returned"
    /\ UNCHANGED <<questionsArg, userStatsArg, generalStatsArg, excludedArg,
                   randomArg>>
    /\ UNCHANGED notSampler

SamplerNext == CallSampler

SpecSampler == SamplerInit /\ [][SamplerNext]_vars

(***************************************************************************)
(* SpecWeight: the stats of the store, loaded, updated by answers, weighed *)
(***************************************************************************)
\* What the store can hold under a counter: nothing, a non-number, a number.
WideCounters == {Absent, Garbage} \cup {Num(n) : n \in (0 - MaxCount) .. MaxCount}

\* Payloads with the record of question "a" at most.
WidePayloads ==
    {<<>>} \cup [{"a"} -> [correct : WideCounters, wrong : WideCounters]]

WeightInit ==
    /\ storedUserStats \in WidePayloads
    /\ storedGeneralStats \in WidePayloads
    /\ loadedUserStats = <<>>
    /\ loadedGeneralStats = <<>>
    /\ answersGiven = 0
    /\ weight = Fin(1, 1)
    /\ weightPc = "stored"
    /\ SamplerIdle("idle")
    /\ StoreIdle
    /\ PracticeIdle
    /\ ViewsIdle

\* getGeneralQuestionStats and getUserQuestionStats, installed by fetchQuestions
LoadStats ==
    /\ weightPc = "stored"
    /\ loadedGeneralStats' = normalizeQuestionStats(storedGeneralStats)
    /\ loadedUserStats' = normalizeQuestionStats(storedUserStats)
    /\ weightPc' = "loaded"
    /\ UNCHANGED <<storedUserStats, storedGeneralStats, answersGiven, weight>>
    /\ UNCHANGED notWeight

\* The in-memory updates of handleAnswerSelect for an answered question.
RecordAnswer(questionId, answeredCorrectly) ==
    /\ weightPc = "loaded"
    /\ answersGiven < MaxAnswers
    /\ answersGiven' = answersGiven + 1
    /\ loadedGeneralStats' =
           RecordInMemory(loadedGeneralStats, questionId, answeredCorrectly)
    /\ loadedUserStats' =
           RecordInMemory(loadedUserStats, questionId, answeredCorrectly)
    /\ UNCHANGED <<storedUserStats, storedGeneralStats, weight, weightPc>>
    /\ UNCHANGED notWeight

Weigh(questionId) ==
    /\ weightPc = "loaded"
    /\ weight' = getQuestionWeight(questionId, loadedUserStats, loadedGeneralStats)
    /\ weightPc' = "weighed"
    /\ UNCHANGED <<storedUserStats, storedGeneralStats, loadedUserStats,
                   loadedGeneralStats, answersGiven>>
    /\ UNCHANGED notWeight

WeightNext ==
    \/ LoadStats
    \/ \E id \in {"a", "b"}, answeredCorrectly \in BOOLEAN :
           RecordAnswer(id, answeredCorrectly)
    \/ \E id \in {"a", "b"} : Weigh(id)

SpecWeight == WeightInit /\ [][WeightNext]_vars

(***************************************************************************)
(* Claims about the sampler (SpecSampler)                                  *)
(***************************************************************************)
Range(seq) == {seq[i] : i \in DOMAIN seq}

DistinctIds(items) ==
    \A i, j \in DOMAIN items : items[i].id = items[j].id => i = j

\* C1: for a non-empty list of questions with distinct ids the sampler
\* returns an element of the list (never null, never a foreign question),
\* whatever the stats maps, the excluded id and the random draw.
C1_ReturnsMemberOfList ==
    (samplerPc = "returned" /\ Len(questionsArg) > 0 /\ DistinctIds(questionsArg))
        => picked \in Range(questionsArg)

\* C1 witness: a call with an excluded id of the list, a non-zero draw and
\* stats for it, on a list of three distinct ids, that returned a member.
C1_Witness ==
    /\ samplerPc = "returned"
    /\ Len(questionsArg) = 3
    /\ DistinctIds(questionsArg)
    /\ excludedArg = questionsArg[1].id
    /\ randomArg > 0
    /\ DOMAIN userStatsArg # {}
    /\ picked \in Range(questionsArg)

\* C3: with an excluded id and more than one question (distinct ids), the
\* question returned is a question of the list other than the excluded one.
C3_ExcludedNeverReturned ==
    (samplerPc = "returned" /\ excludedArg # "" /\ Len(questionsArg) > 1
        /\ DistinctIds(questionsArg))
        => (picked \in Range(questionsArg) /\ picked.id # excludedArg)

\* C3 witness: the spec's scenario, pool [A, B] with B excluded and B the
\* question the draw would otherwise reach, returns A.
C3_Witness ==
    /\ samplerPc = "returned"
    /\ Len(questionsArg) = 2
    /\ DistinctIds(questionsArg)
    /\ excludedArg = questionsArg[2].id
    /\ randomArg = RandSteps - 1
    /\ picked = questionsArg[1]

\* C4 (as claimed): when every entry of a list of more than one question
\* carries the excluded id, the sampler falls back to the unfiltered list
\* and returns one of its questions.
C4_FallsBackToUnfilteredList ==
    (samplerPc = "returned" /\ excludedArg # "" /\ Len(questionsArg) > 1
        /\ \A i \in DOMAIN questionsArg : questionsArg[i].id = excludedArg)
        => picked \in Range(questionsArg)

\* The pool of the call, weighted, and the point drawn on the wheel.
ArgPool == SamplerPool(questionsArg, excludedArg)
ArgWeightedPool == WeightedPool(ArgPool, userStatsArg, generalStatsArg)
DrawOn(weightedPool) ==
    XMul(Fin(randomArg, RandSteps), TotalWeight(weightedPool, Len(weightedPool)))
AllFinite(weightedPool) ==
    \A i \in DOMAIN weightedPool : weightedPool[i].weight.k = "fin"
\* w1 + ... + wi >= r
CumulativeReaches(weightedPool, i, r) ==
    XLeqZero(XSub(r, TotalWeight(weightedPool, i)))
\* The first candidate from i on whose cumulative weight reaches r, the last
\* candidate if there is none.
RECURSIVE FirstReached(_, _, _)
FirstReached(weightedPool, i, r) ==
    IF i >= Len(weightedPool) THEN Len(weightedPool)
    ELSE IF CumulativeReaches(weightedPool, i, r) THEN i
    ELSE FirstReached(weightedPool, i + 1, r)

\* C10: with finite weights w1..wn and the draw r, the sampler returns the
\* first candidate whose cumulative weight w1+...+wi is >= r, and the last
\* candidate when no cumulative weight reaches r.
C10_RouletteWheel ==
    (samplerPc = "returned" /\ Len(ArgPool) > 0)
        => LET weightedPool == ArgWeightedPool
           IN  AllFinite(weightedPool)
                 => picked = ArgPool[FirstReached(weightedPool, 1,
                                                  DrawOn(weightedPool))]

\* C10 witness: three candidates of positive weights, not all the same, and
\* a draw that passes the first candidate and stops at the middle one.
C10_Witness ==
    /\ samplerPc = "returned"
    /\ Len(ArgPool) = 3
    /\ AllFinite(ArgWeightedPool)
    /\ \A i \in DOMAIN ArgWeightedPool : ArgWeightedPool[i].weight.n > 0
    /\ ArgWeightedPool[1].weight # ArgWeightedPool[2].weight
    /\ ~CumulativeReaches(ArgWeightedPool, 1, DrawOn(ArgWeightedPool))
    /\ CumulativeReaches(ArgWeightedPool, 2, DrawOn(ArgWeightedPool))
    /\ picked = ArgPool[2]

(***************************************************************************)
(* Claims about the weight (SpecWeight)                                    *)
(***************************************************************************)
\* C2 (as claimed): the weight of every question is finite and strictly
\* positive for the stats maps loaded from any stored payload and updated
\* by answers.
C2_WeightPositiveFinite ==
    weightPc = "weighed" => (weight.k = "fin" /\ weight.n > 0)

\* a < b on doubles
XLess(a, b) ==
    CASE a.k = "nan" \/ b.k = "nan" -> FALSE
      [] a.k = "fin" /\ b.k = "fin" -> a.n * b.d < b.n * a.d
      [] a.k = "ninf" -> b.k # "ninf"
      [] OTHER -> a.k = "fin" /\ b.k = "pinf"

\* statsByQuestion with the field of the question raised by k
Raised(statsByQuestion, questionId, field, k) ==
    WithStat(statsByQuestion, questionId,
             [StatOf(statsByQuestion, questionId) EXCEPT ![field] = @ + k])

NonNegativeCounts(questionId) ==
    \A field \in Fields :
        /\ StatOf(loadedUserStats, questionId)[field] >= 0
        /\ StatOf(loadedGeneralStats, questionId)[field] >= 0

\* C11: for non-negative counts, raising the user or the general correct
\* count of a question strictly lowers its weight, and raising its user or
\* general wrong count strictly raises it.
C11_WeightStrictlyMonotone ==
    weightPc \in {"loaded", "weighed"} =>
        \A questionId \in {"a", "b"}, k \in 1..MaxRaise :
            NonNegativeCounts(questionId) =>
                LET now == getQuestionWeight(questionId, loadedUserStats,
                                             loadedGeneralStats)
                    with(userMap, generalMap) ==
                        getQuestionWeight(questionId, userMap, generalMap)
                IN  /\ XLess(with(Raised(loadedUserStats, questionId, "correct", k),
                                  loadedGeneralStats), now)
                    /\ XLess(with(loadedUserStats,
                                  Raised(loadedGeneralStats, questionId, "correct", k)),
                             now)
                    /\ XLess(now,
                             with(Raised(loadedUserStats, questionId, "wrong", k),
                                  loadedGeneralStats))
                    /\ XLess(now,
                             with(loadedUserStats,
                                  Raised(loadedGeneralStats, questionId, "wrong", k)))

\* A weight computed from non-negative counts, the user's wrong count above
\* the correct one and an answer recorded in memory.
C11_Witness ==
    /\ weightPc = "weighed"
    /\ NonNegativeCounts("a")
    /\ StatOf(loadedUserStats, "a").correct = 0
    /\ StatOf(loadedUserStats, "a").wrong = MaxCount
    /\ StatOf(loadedGeneralStats, "a").correct > 0
    /\ answersGiven > 0
    /\ weight = getQuestionWeight("a", loadedUserStats, loadedGeneralStats)

(***************************************************************************)
(* Claims about saveQuestionAttempt (SpecStore)                            *)
(***************************************************************************)
\* The number a stored counter stands for (Number(v ?? 0), 0 if not finite).
NumOf(value) == FiniteOr(value, 0)

AllCallsDone == \A i \in DOMAIN calls : calls[i].pc = "done"

\* C7: when the N calls issued are all for the same question and outcome and
\* all have completed, that general counter is exactly N higher than before,
\* however their transactions interleaved.
C7_NoLostUpdate ==
    \A questionId \in Ids, field \in Fields :
        ( /\ Len(calls) > 0
          /\ AllCallsDone
          /\ \A i \in DOMAIN calls :
                calls[i].questionId = questionId /\ calls[i].field = field )
        => NumOf(remoteGeneral[questionId][field])
             = NumOf(generalBefore[questionId][field]) + Len(calls)

\* C7 witness: MaxCalls calls for the same counter have completed, one of
\* them after the server rejected its first update (a concurrent write).
C7_Witness ==
    /\ Len(calls) = MaxCalls
    /\ AllCallsDone
    /\ \A i \in DOMAIN calls :
          calls[i].questionId = "a" /\ calls[i].field = "correct"
    /\ \E i \in DOMAIN calls : calls[i].retried
    /\ remoteGeneral["a"].correct =
          Num(NumOf(generalBefore["a"].correct) + MaxCalls)

\* The calls whose general (user) transaction was committed.
GeneralWritten(call) ==
    call.pc \in {"user_read", "user_commit", "done", "failed_user"}
UserWritten(call) == call.pc = "done" /\ call.userKey # ""

GeneralWrites(questionId, field) ==
    Cardinality({i \in DOMAIN calls :
        /\ GeneralWritten(calls[i])
        /\ calls[i].questionId = questionId
        /\ calls[i].field = field})

UserWrites(userKey, questionId, field) ==
    Cardinality({i \in DOMAIN calls :
        /\ UserWritten(calls[i])
        /\ calls[i].userKey = userKey
        /\ calls[i].questionId = questionId
        /\ calls[i].field = field})

\* C8: every counter of the store is its value before the calls plus one
\* for each call that wrote it: a completed call wrote the general counter
\* of its question and outcome once, the same counter of its user key if
\* and only if it was given one, and no other counter (a counter no call
\* wrote holds what it held).
C8_ExactlyOneCounterPerScope ==
    /\ \A questionId \in Ids, field \in Fields :
          LET n == GeneralWrites(questionId, field)
          IN  IF n = 0
              THEN remoteGeneral[questionId][field]
                     = generalBefore[questionId][field]
              ELSE remoteGeneral[questionId][field]
                     = Num(NumOf(generalBefore[questionId][field]) + n)
    /\ \A userKey \in UserKeys, questionId \in Ids, field \in Fields :
          LET n == UserWrites(userKey, questionId, field)
          IN  IF n = 0
              THEN remoteUsers[userKey][questionId][field]
                     = usersBefore[userKey][questionId][field]
              ELSE remoteUsers[userKey][questionId][field]
                     = Num(NumOf(usersBefore[userKey][questionId][field]) + n)

\* C8 witness: a call with a user key and a call without one have completed.
C8_Witness ==
    /\ AllCallsDone
    /\ \E i, j \in DOMAIN calls :
          /\ calls[i].userKey = "u1"
          /\ calls[j].userKey = ""
          /\ calls[i].field # calls[j].field
    /\ remoteUsers # usersBefore

(***************************************************************************)
(* SpecPractice: the practice view (component Questioner of Questioner.tsx)*)
(* of one client; the writes it issues are recorded in calls               *)
(***************************************************************************)
\* What the four questions/{categoryKey} requests can yield, normalized and
\* flattened in the order of QUESTION_CATEGORIES.
PracticeBanks ==
    { <<Question("a", "General Information", 0),
        Question("b", "General Information", 1),
        Question("c", "Verbal Ability", 0)>>,
      <<Question("a", "General Information", 0)>>,
      <<>> }

\* selectedCategories.includes(question.category)
IncludesCategory(categories, category) ==
    \E i \in DOMAIN categories : categories[i] = category

\* The pool of a single-category or all-categories filter.
FilterPool(items, filter) ==
    IF filter = ALL_CATEGORIES THEN items
    ELSE SelectSeq(items, LAMBDA question : question.category = filter)

filteredQuestions ==
    IF isMultiSelectEnabled
    THEN SelectSeq(questions,
                   LAMBDA question :
                       IncludesCategory(selectedCategories, question.category))
    ELSE FilterPool(questions, activeFilter)

isAnswered == selectedIndex # NoSelection /\ currentQuestion # NoQuestion

\* The state the component is constructed in, before its effects have run,
\* over a database holding one of the banks and one of the general counters.
PracticeStart(banks, generals) ==
    /\ storedQuestions \in banks
    /\ sessionUserKey \in {"", "u1"}
    /\ questions = <<>>
    /\ activeFilter = ALL_CATEGORIES
    /\ isMultiSelectEnabled = FALSE
    /\ selectedCategories = QUESTION_CATEGORIES
    /\ currentQuestion = NoQuestion
    /\ selectedIndex = NoSelection
    /\ userStatsByQuestion = <<>>
    /\ generalStatsByQuestion = <<>>
    /\ isLoading = TRUE
    /\ error = FALSE
    /\ effectDue = TRUE
    /\ nextFrom = ""
    /\ \E general \in generals :
           remoteGeneral = [EmptyGeneral EXCEPT !["a"].correct = general]
    /\ remoteUsers = [EmptyUsers EXCEPT !["u1"]["a"].wrong = Num(1)]
    /\ generalBefore = remoteGeneral
    /\ usersBefore = remoteUsers
    /\ calls = <<>>
    /\ lastOp = "init"
    /\ SamplerIdle("idle")
    /\ WeightIdle("idle")
    /\ ViewsIdle
    /\ LoadIdle

PracticeInit == PracticeStart(PracticeBanks, {Absent, Num(1)})

\* Mutant: a null draw leaves the question shown in place.
moveToNextQuestionKeepingCurrent(pool, userStatsMap, generalStatsMap, excludedQuestionId) ==
    /\ \E random \in 0..(RandSteps - 1) :
           LET next == getWeightedRandomQuestion(pool, userStatsMap,
                                                 generalStatsMap,
                                                 excludedQuestionId, random)
           IN  currentQuestion' =
                   IF next = NoQuestion THEN currentQuestion ELSE next
    /\ selectedIndex' = NoSelection

\* setCurrentQuestion(getWeightedRandomQuestion(...)); setSelectedIndex(null)
moveToNextQuestion(pool, userStatsMap, generalStatsMap, excludedQuestionId) ==
    /\ \E random \in 0..(RandSteps - 1) :
           currentQuestion' =
               getWeightedRandomQuestion(pool, userStatsMap, generalStatsMap,
                                         excludedQuestionId, random)
    /\ selectedIndex' = NoSelection

\* The effect on [filteredQuestions, selectedIndex], run after the render in
\* which one of the two changed (and after the first render).
nextQuestionEffect ==
    /\ effectDue
    /\ effectDue' = FALSE
    /\ IF selectedIndex # NoSelection
       THEN UNCHANGED <<currentQuestion, selectedIndex>>
       ELSE moveToNextQuestion(filteredQuestions, userStatsByQuestion,
                               generalStatsByQuestion, "")
    /\ lastOp' = "nextQuestionEffect"
    /\ UNCHANGED <<storedQuestions, sessionUserKey, questions, activeFilter,
                   isMultiSelectEnabled, selectedCategories,
                   userStatsByQuestion, generalStatsByQuestion, isLoading,
                   error, nextFrom>>
    /\ UNCHANGED <<remoteGeneral, remoteUsers, calls, generalBefore, usersBefore>>
    /\ UNCHANGED notPractice

\* fetchQuestions: the three requests resolve; the lists and both stats maps
\* are installed in one render.
fetchQuestionsLoaded ==
    /\ isLoading
    /\ ~effectDue
    /\ questions' = storedQuestions
    /\ generalStatsByQuestion' = normalizeQuestionStats(SnapshotOf(remoteGeneral))
    /\ userStatsByQuestion' =
           IF sessionUserKey = "" THEN <<>>
           ELSE normalizeQuestionStats(SnapshotOf(remoteUsers[sessionUserKey]))
    /\ isLoading' = FALSE
    /\ effectDue' = TRUE
    /\ nextFrom' = ""
    /\ lastOp' = "fetchQuestions"
    /\ UNCHANGED <<storedQuestions, sessionUserKey, activeFilter,
                   isMultiSelectEnabled, selectedCategories, currentQuestion,
                   selectedIndex, error>>
    /\ UNCHANGED <<remoteGeneral, remoteUsers, calls, generalBefore, usersBefore>>
    /\ UNCHANGED notPractice

\* fetchQuestions: one of the requests fails.
fetchQuestionsFailed ==
    /\ isLoading
    /\ ~effectDue
    /\ error' = TRUE
    /\ isLoading' = FALSE
    /\ nextFrom' = ""
    /\ lastOp' = "fetchQuestions"
    /\ UNCHANGED <<storedQuestions, sessionUserKey, questions, activeFilter,
                   isMultiSelectEnabled, selectedCategories, currentQuestion,
                   selectedIndex, userStatsByQuestion, generalStatsByQuestion,
                   effectDue>>
    /\ UNCHANGED <<remoteGeneral, remoteUsers, calls, generalBefore, usersBefore>>
    /\ UNCHANGED notPractice

\* What a handler leaves alone of the store and of the other parts.
PracticeStoreUntouched ==
    /\ UNCHANGED <<remoteGeneral, remoteUsers, calls, generalBefore, usersBefore>>
    /\ UNCHANGED notPractice

\* A click on a filter button outside the multi-select mode (inside it the
\* handler returns at once).
showAnotherQuestion(filter) ==
    /\ ~effectDue
    /\ IF isMultiSelectEnabled
       THEN UNCHANGED <<activeFilter, currentQuestion, selectedIndex,
                        effectDue, nextFrom>>
       ELSE /\ activeFilter' = filter
            /\ moveToNextQuestion(FilterPool(questions, filter),
                                  userStatsByQuestion, generalStatsByQuestion,
                                  currentQuestion.id)
            \* the memo is computed again when the filter changed
            /\ effectDue' = (filter # activeFilter \/ selectedIndex # NoSelection)
            /\ nextFrom' = ""
    /\ lastOp' = "showAnotherQuestion"
    /\ UNCHANGED <<storedQuestions, sessionUserKey, questions,
                   isMultiSelectEnabled, selectedCategories,
                   userStatsByQuestion, generalStatsByQuestion, isLoading, error>>
    /\ PracticeStoreUntouched

toggleMultiSelectMode ==
    /\ ~effectDue
    /\ IF isMultiSelectEnabled
       THEN /\ isMultiSelectEnabled' = FALSE
            /\ activeFilter' = IF Len(selectedCategories) = 1
                               THEN selectedCategories[1]
                               ELSE ALL_CATEGORIES
            /\ UNCHANGED selectedCategories
       ELSE /\ isMultiSelectEnabled' = TRUE
            /\ selectedCategories' = IF activeFilter = ALL_CATEGORIES
                                     THEN QUESTION_CATEGORIES
                                     ELSE <<activeFilter>>
            /\ UNCHANGED activeFilter
    \* filteredQuestions is another array after the mode changed
    /\ effectDue' = TRUE
    /\ nextFrom' = ""
    /\ lastOp' = "toggleMultiSelectMode"
    /\ UNCHANGED <<storedQuestions, sessionUserKey, questions, currentQuestion,
                   selectedIndex, userStatsByQuestion, generalStatsByQuestion,
                   isLoading, error>>
    /\ PracticeStoreUntouched

\* The updater of toggleCategorySelection.
ToggledCategories(previous, category) ==
    LET isAllSelected == Len(previous) = Len(QUESTION_CATEGORIES)
    IN  IF isAllSelected /\ IncludesCategory(previous, category)
        THEN <<category>>
        ELSE IF IncludesCategory(previous, category)
             THEN IF Len(previous) = 1 THEN previous
                  ELSE SelectSeq(previous, LAMBDA item : item # category)
             ELSE Append(previous, category)

\* A click on a category button inside the multi-select mode.
toggleCategorySelection(category) ==
    /\ ~effectDue
    /\ isMultiSelectEnabled
    /\ selectedCategories' = ToggledCategories(selectedCategories, category)
    \* the updater hands back previous itself for the only selected category
    /\ effectDue' = ~(Len(selectedCategories) = 1
                      /\ IncludesCategory(selectedCategories, category))
    /\ nextFrom' = ""
    /\ lastOp' = "toggleCategorySelection"
    /\ UNCHANGED <<storedQuestions, sessionUserKey, questions, activeFilter,
                   isMultiSelectEnabled, currentQuestion, selectedIndex,
                   userStatsByQuestion, generalStatsByQuestion, isLoading, error>>
    /\ PracticeStoreUntouched

\* A click on the all-categories button inside the multi-select mode.
selectAllCategories ==
    /\ ~effectDue
    /\ isMultiSelectEnabled
    /\ selectedCategories' = QUESTION_CATEGORIES
    /\ effectDue' = TRUE
    /\ nextFrom' = ""
    /\ lastOp' = "selectAllCategories"
    /\ UNCHANGED <<storedQuestions, sessionUserKey, questions, activeFilter,
                   isMultiSelectEnabled, currentQuestion, selectedIndex,
                   userStatsByQuestion, generalStatsByQuestion, isLoading, error>>
    /\ PracticeStoreUntouched

\* Mutant: the test of selectedIndex is dropped.
CanAnswerAgain == currentQuestion # NoQuestion

\* !(!currentQuestion || selectedIndex !== null)
CanAnswer == currentQuestion # NoQuestion /\ selectedIndex = NoSelection

handleAnswerSelect(index) ==
    /\ ~effectDue
    /\ IF CanAnswer
       THEN LET answeredCorrectly == index = currentQuestion.correctIndex
            IN  /\ Len(calls) < MaxAnswers
                /\ selectedIndex' = index
                /\ calls' = Append(calls, NewCall(currentQuestion.id,
                                                  answeredCorrectly,
                                                  sessionUserKey))
                /\ generalStatsByQuestion' =
                       RecordInMemory(generalStatsByQuestion,
                                      currentQuestion.id, answeredCorrectly)
                /\ userStatsByQuestion' =
                       RecordInMemory(userStatsByQuestion,
                                      currentQuestion.id, answeredCorrectly)
                /\ effectDue' = TRUE
                /\ nextFrom' = ""
                /\ lastOp' = "handleAnswerSelect"
       ELSE /\ lastOp' = "handleAnswerSelect returned"
            /\ UNCHANGED <<selectedIndex, calls, generalStatsByQuestion,
                           userStatsByQuestion, effectDue, nextFrom>>
    /\ UNCHANGED <<storedQuestions, sessionUserKey, questions, activeFilter,
                   isMultiSelectEnabled, selectedCategories, currentQuestion,
                   isLoading, error>>
    /\ UNCHANGED <<remoteGeneral, remoteUsers, generalBefore, usersBefore>>
    /\ UNCHANGED notPractice

\* A click on Next Question, which is rendered once the question is answered.
handleNextQuestion ==
    /\ ~effectDue
    /\ isAnswered
    /\ moveToNextQuestion(filteredQuestions, userStatsByQuestion,
                          generalStatsByQuestion, currentQuestion.id)
    /\ effectDue' = TRUE
    /\ nextFrom' = currentQuestion.id
    /\ lastOp' = "handleNextQuestion"
    /\ UNCHANGED <<storedQuestions, sessionUserKey, questions, activeFilter,
                   isMultiSelectEnabled, selectedCategories,
                   userStatsByQuestion, generalStatsByQuestion, isLoading, error>>
    /\ PracticeStoreUntouched

PracticeNext ==
    \/ nextQuestionEffect
    \/ fetchQuestionsLoaded
    \/ fetchQuestionsFailed
    \/ \E filter \in Categories \cup {ALL_CATEGORIES} : showAnotherQuestion(filter)
    \/ toggleMultiSelectMode
    \/ \E category \in Categories : toggleCategorySelection(category)
    \/ selectAllCategories
    \/ \E index \in OptionIndices : handleAnswerSelect(index)
    \/ handleNextQuestion

\* The component alone: the writes it issues are left pending.
SpecPractice == PracticeInit /\ [][PracticeNext]_vars

(***************************************************************************)
(* SpecPracticeStore: the practice view of one client together with the    *)
(* transactions of the writes it issues, over a bank of one question       *)
(***************************************************************************)
PracticeStoreInit ==
    PracticeStart({<<Question("a", "General Information", 0)>>}, {Num(1)})

PracticeStoreNext ==
    \/ PracticeNext
    \/ \E i \in DOMAIN calls : TxnRead(i)
    \/ \E i \in DOMAIN calls : TxnCommit(i)
    \/ \E i \in DOMAIN calls : TxnRetry(i)
    \/ \E i \in DOMAIN calls : TxnFail(i)

SpecPracticeStore == PracticeStoreInit /\ [][PracticeStoreNext]_vars

(***************************************************************************)
(* Claims about the practice view (SpecPractice, SpecPracticeStore)        *)
(***************************************************************************)
\* C5: with more than one question in the filtered pool, the question shown
\* once the effects of a click on Next Question have run is not the question
\* that was answered before the click.
C5_NextNeverRepeats ==
    (nextFrom # "" /\ ~effectDue /\ Len(filteredQuestions) > 1)
        => currentQuestion.id # nextFrom

AnswerCalls == {"handleAnswerSelect", "handleAnswerSelect returned"}

\* C6: a call of handleAnswerSelect on an answered question changes neither
\* the selected index, nor the in-memory stats, nor the remote counters, and
\* issues no write.
C6_AnsweredIgnoresClicks ==
    [][(isAnswered /\ lastOp' \in AnswerCalls)
          => UNCHANGED <<selectedIndex, currentQuestion, userStatsByQuestion,
                         generalStatsByQuestion, remoteGeneral, remoteUsers,
                         calls>>]_vars

\* An answered question on which handleAnswerSelect was called once more.
C6_Witness ==
    /\ isAnswered
    /\ lastOp = "handleAnswerSelect returned"
    /\ Len(calls) = 1

\* C9: for one client whose writes all completed, every in-memory general
\* counter equals the remote one and every in-memory per-user counter equals
\* the remote counter of the learner; without a user key the in-memory
\* per-user counters stay as loaded.
C9_MemoryMirrorsRemote ==
    (~isLoading /\ ~error /\ AllCallsDone)
        => \A id \in Ids, field \in Fields :
               /\ StatOf(generalStatsByQuestion, id)[field]
                      = NumOf(remoteGeneral[id][field])
               /\ StatOf(userStatsByQuestion, id)[field]
                      = IF sessionUserKey = "" THEN 0
                        ELSE NumOf(remoteUsers[sessionUserKey][id][field])

(***************************************************************************)
(* Stored question payloads and the normalizers                            *)
(*                                                                         *)
(* A string is the sequence of its characters.  A stored question is a     *)
(* record of what JSON can hold under its three fields: question is a      *)
(* string (<<>> also when the field is missing), options is an array of    *)
(* items or not an array, correctIndex is a number n/d or not a number.    *)
(***************************************************************************)
RECURSIVE TrimStart(_)
TrimStart(text) ==
    IF text # <<>> /\ Head(text) = " " THEN TrimStart(Tail(text)) ELSE text

RECURSIVE TrimEnd(_)
TrimEnd(text) ==
    IF text # <<>> /\ text[Len(text)] = " "
    THEN TrimEnd(SubSeq(text, 1, Len(text) - 1))
    ELSE text

\* text.trim()
Trim(text) == TrimEnd(TrimStart(text))

StringItem(text) == [isString |-> TRUE, text |-> text]
NullItem == [isString |-> FALSE, text |-> <<>>]
ArrayOf(items) == [isArray |-> TRUE, items |-> items]
NotAnArray == [isArray |-> FALSE, items |-> <<>>]
NumberOf(n, d) == [isNumber |-> TRUE, n |-> n, d |-> d]
NotANumber == [isNumber |-> FALSE, n |-> 0, d |-> 1]

RawQuestion(question, options, correctIndex) ==
    [question |-> question, options |-> options, correctIndex |-> correctIndex]

\* typeof correctIndex === "number" && correctIndex >= 0 && hasValidOptions
\* && correctIndex < options.length
HasValidCorrectIndex(correctIndex, options, hasValidOptions) ==
    /\ correctIndex.isNumber
    /\ correctIndex.n >= 0
    /\ hasValidOptions
    /\ correctIndex.n < correctIndex.d * Len(options.items)

\* QuestionsDashboard.tsx: options.every((item) => Boolean(item?.trim()))
DashboardHasValidOptions(options) ==
    /\ options.isArray
    /\ Len(options.items) > 0
    /\ \A i \in DOMAIN options.items :
           options.items[i].isString /\ Trim(options.items[i].text) # <<>>

\* The BaseQuestion of an entry that is kept.
DashboardQuestionOf(category, entry) ==
    [id |-> entry.id,
     category |-> category,
     question |-> Trim(entry.value.question),
     options |-> [i \in DOMAIN entry.value.options.items |->
                     Trim(entry.value.options.items[i].text)],
     correctIndex |-> entry.value.correctIndex]

DashboardKeeps(value) ==
    LET hasValidOptions == DashboardHasValidOptions(value.options)
    IN  /\ Trim(value.question) # <<>>
        /\ hasValidOptions
        /\ HasValidCorrectIndex(value.correctIndex, value.options, hasValidOptions)

\* normalizeQuestions of QuestionsDashboard.tsx; payload is the sequence of
\* the entries [id, value] of the category (<<>> for null).
RECURSIVE DashboardNormalizeQuestions(_, _)
DashboardNormalizeQuestions(category, payload) ==
    IF payload = <<>> THEN <<>>
    ELSE (IF DashboardKeeps(Head(payload).value)
          THEN <<DashboardQuestionOf(category, Head(payload))>>
          ELSE <<>>)
         \o DashboardNormalizeQuestions(category, Tail(payload))

(***************************************************************************)
(* SpecDashboard: the dashboard (component QuestionsDashboard) loading its *)
(* rows from the store                                                     *)
(***************************************************************************)
\* The QuestionRow of a question.
RowOf(question, statsByQuestion) ==
    LET stats == StatOf(statsByQuestion, question.id)
        attempts == stats.correct + stats.wrong
    IN  [id |-> question.id,
         category |-> question.category,
         question |-> question.question,
         options |-> question.options,
         correctIndex |-> question.correctIndex,
         correct |-> stats.correct,
         wrong |-> stats.wrong,
         attempts |-> attempts,
         score |-> stats.wrong * 2 - stats.correct]

\* Mutant: the comparator looks at the score only.
compareRowsByScore(a, b) == b.score - a.score

\* (a, b) => b.score - a.score || b.wrong - a.wrong || b.attempts - a.attempts
compareRows(a, b) ==
    IF b.score - a.score # 0 THEN b.score - a.score
    ELSE IF b.wrong - a.wrong # 0 THEN b.wrong - a.wrong
    ELSE b.attempts - a.attempts

\* sorted with row put before the first row it has to precede (the sort of
\* arrays is stable).
InsertRow(sorted, row) ==
    LET before == {i \in DOMAIN sorted : compareRows(row, sorted[i]) < 0}
        at == IF before = {} THEN Len(sorted) + 1
              ELSE CHOOSE i \in before : \A j \in before : i <= j
    IN  SubSeq(sorted, 1, at - 1) \o <<row>> \o SubSeq(sorted, at, Len(sorted))

\* rows.sort(compareRows), for the first n rows
RECURSIVE SortRows(_, _)
SortRows(rows, n) ==
    IF n = 0 THEN <<>> ELSE InsertRow(SortRows(rows, n - 1), rows[n])

\* questionByCategory.flat(), for the first n categories
RECURSIVE QuestionsByCategoryFlat(_, _)
QuestionsByCategoryFlat(payloads, n) ==
    IF n = 0 THEN <<>>
    ELSE QuestionsByCategoryFlat(payloads, n - 1)
         \o DashboardNormalizeQuestions(QUESTION_CATEGORIES[n],
                                        payloads[QUESTION_CATEGORIES[n]])

\* merged
MergedRows(payloads, statsByQuestion) ==
    LET flat == QuestionsByCategoryFlat(payloads, Len(QUESTION_CATEGORIES))
        rows == [i \in DOMAIN flat |-> RowOf(flat[i], statsByQuestion)]
    IN  SortRows(rows, Len(rows))

\* <td>#{index + 1}</td>
RankShown(index) == index + 1

\* The rank cells of the table, top down (array indices start at 0).
RanksShown == [i \in DOMAIN dashboardQuestions |-> RankShown(i - 1)]

ValidRaw(correctIndex) ==
    RawQuestion(<<"q">>, ArrayOf(<<StringItem(<<"x">>), StringItem(<<" ", "y">>)>>),
                NumberOf(correctIndex, 1))
BlankRaw ==
    RawQuestion(<<" ">>, ArrayOf(<<StringItem(<<"x">>), StringItem(<<"y">>)>>),
                NumberOf(0, 1))
Entry(id, value) == [id |-> id, value |-> value]

\* What questions/ can hold under the two categories.
DashboardPayloads ==
    [ {"General Information"} ->
          { <<>>,
            <<Entry("a", ValidRaw(0)), Entry("b", ValidRaw(1))>>,
            <<Entry("a", BlankRaw), Entry("b", ValidRaw(1))>> } ]
    \X
    [ {"Verbal Ability"} ->
          { <<>>, <<Entry("c", ValidRaw(0))>>, <<Entry("a", ValidRaw(1))>> } ]

\* What questionStats/general can hold under a counter.
DashboardCounters == {Absent} \cup {Num(n) : n \in 0..MaxCount}

\* The component after its first render, fetchDashboardData in flight.
DashboardInit ==
    /\ \E payloads \in DashboardPayloads :
           remoteQuestions =
               [category \in Categories |->
                   IF category = "General Information"
                   THEN payloads[1][category] ELSE payloads[2][category]]
    /\ \E stats \in [{"a", "b"} -> [correct : DashboardCounters,
                                    wrong : DashboardCounters]] :
           remoteGeneral = [id \in Ids |-> IF id \in DOMAIN stats THEN stats[id]
                                           ELSE EmptyCounters]
    /\ remoteUsers = <<>>
    /\ generalBefore = <<>>
    /\ usersBefore = <<>>
    /\ calls = <<>>
    /\ lastOp = "init"
    /\ dashboardQuestions = <<>>
    /\ dashboardIsLoading = TRUE
    /\ dashboardError = FALSE
    /\ SamplerIdle("idle")
    /\ WeightIdle("idle")
    /\ PracticeIdle
    /\ HistoryIdle
    /\ FormsIdle
    /\ OthersIdle

\* fetchDashboardData: every request succeeded.
fetchDashboardDataLoaded ==
    /\ dashboardIsLoading
    /\ dashboardQuestions' =
           MergedRows(remoteQuestions,
                      normalizeQuestionStats(SnapshotOf(remoteGeneral)))
    /\ dashboardIsLoading' = FALSE
    /\ UNCHANGED <<remoteQuestions, dashboardError>>
    /\ UNCHANGED notDashboard

\* fetchDashboardData: one of the requests failed.
fetchDashboardDataFailed ==
    /\ dashboardIsLoading
    /\ dashboardError' = TRUE
    /\ dashboardIsLoading' = FALSE
    /\ UNCHANGED <<remoteQuestions, dashboardQuestions>>
    /\ UNCHANGED notDashboard

DashboardNext ==
    \/ fetchDashboardDataLoaded
    \/ fetchDashboardDataFailed

SpecDashboard == DashboardInit /\ [][DashboardNext]_vars

(***************************************************************************)
(* Claims about the dashboard (SpecDashboard)                              *)
(***************************************************************************)
DashboardLoaded == ~dashboardIsLoading /\ ~dashboardError

\* C12 (as claimed): any two distinct rows of the dashboard are strictly
\* ordered by score, then wrong count, then attempts, all descending.
C12_RankStrictTotalOrder ==
    DashboardLoaded =>
        \A i, j \in DOMAIN dashboardQuestions :
            i # j => compareRows(dashboardQuestions[i], dashboardQuestions[j]) # 0

\* (score, wrong, attempts) of a is lexicographically >= that of b
LexGeq(a, b) ==
    \/ a.score > b.score
    \/ a.score = b.score /\ a.wrong > b.wrong
    \/ a.score = b.score /\ a.wrong = b.wrong /\ a.attempts >= b.attempts

\* C13: every row has score = wrong * 2 - correct and attempts = correct +
\* wrong, a row placed before another has a lexicographically greater or
\* equal (score, wrong, attempts), and the ranks shown are 1..N top down.
C13_RowsSortedAndRanked ==
    DashboardLoaded =>
        /\ \A i \in DOMAIN dashboardQuestions :
               LET row == dashboardQuestions[i]
               IN  /\ row.score = row.wrong * 2 - row.correct
                   /\ row.attempts = row.correct + row.wrong
                   /\ RanksShown[i] = i
        /\ \A i, j \in DOMAIN dashboardQuestions :
               i < j => LexGeq(dashboardQuestions[i], dashboardQuestions[j])
        /\ {RanksShown[i] : i \in DOMAIN RanksShown} = 1..Len(dashboardQuestions)

\* Three rows loaded of which the first two tie on the score and differ in
\* the wrong count, sorted against the order of the store.
C13_Witness ==
    /\ DashboardLoaded
    /\ Len(dashboardQuestions) = 3
    /\ dashboardQuestions[1].score = dashboardQuestions[2].score
    /\ dashboardQuestions[1].wrong > dashboardQuestions[2].wrong
    /\ dashboardQuestions[1].id = "b"
    /\ dashboardQuestions[2].score > dashboardQuestions[3].score

(***************************************************************************)
(* Mock exam history (firebase.ts: saveMockExamRecord, getMockExamHistory) *)
(*                                                                         *)
(* set(ref, value) stores the JSON of value; the database keeps no empty   *)
(* array (the property is then missing from what get returns).             *)
(***************************************************************************)
\* A string, or a value that is none (text is then <<>>).
JsonString(text) == [isString |-> TRUE, text |-> text]
NoString == [isString |-> FALSE, text |-> <<>>]

\* What the database holds for an array.
StoredArray(items) == IF items = <<>> THEN NotAnArray ELSE ArrayOf(items)

\* What the database holds for a MockExamQuestionRecord.
StoredExamQuestion(question) ==
    [id |-> JsonString(question.id),
     question |-> JsonString(question.question),
     category |-> JsonString(question.category),
     options |-> StoredArray([i \in DOMAIN question.options |->
                                 JsonString(question.options[i])]),
     correctIndex |-> NumberOf(question.correctIndex, 1),
     selectedIndex |-> NumberOf(question.selectedIndex, 1)]

\* What the database holds for the record handed to saveMockExamRecord.
StoredExamRecord(record) ==
    [totalQuestions |-> NumberOf(record.totalQuestions, 1),
     score |-> NumberOf(record.score, 1),
     selectedCategories |->
         StoredArray([i \in DOMAIN record.selectedCategories |->
                         JsonString(record.selectedCategories[i])]),
     submittedAt |-> JsonString(record.submittedAt),
     isRetake |-> record.isRetake,
     retakeOfAttemptId |-> record.retakeOfAttemptId,
     questions |-> StoredArray([i \in DOMAIN record.questions |->
                                   StoredExamQuestion(record.questions[i])])]

\* Number(value ?? 0) of a stored number or of a missing property
NumberOrZero(value) == IF value.isNumber THEN value.n ELSE 0

\* Mutant: the indices are tested for truth, so index 0 is refused.
IsExamQuestionRecordTruthy(candidate) ==
    /\ candidate.id.isString
    /\ candidate.question.isString
    /\ candidate.category.isString
    /\ candidate.options.isArray
    /\ \A i \in DOMAIN candidate.options.items : candidate.options.items[i].isString
    /\ candidate.correctIndex.isNumber /\ candidate.correctIndex.n # 0
    /\ candidate.selectedIndex.isNumber /\ candidate.selectedIndex.n # 0

\* The test of getMockExamHistory on a stored question.
IsExamQuestionRecord(candidate) ==
    /\ candidate.id.isString
    /\ candidate.question.isString
    /\ candidate.category.isString
    /\ candidate.options.isArray
    /\ \A i \in DOMAIN candidate.options.items : candidate.options.items[i].isString
    /\ candidate.correctIndex.isNumber
    /\ candidate.selectedIndex.isNumber

ExamQuestionOf(candidate) ==
    [id |-> candidate.id.text,
     question |-> candidate.question.text,
     category |-> candidate.category.text,
     options |-> [i \in DOMAIN candidate.options.items |->
                     candidate.options.items[i].text],
     correctIndex |-> candidate.correctIndex.n,
     selectedIndex |-> candidate.selectedIndex.n]

\* new Date(0).toISOString(), as a time
EpochStart == 0

\* The item getMockExamHistory builds of an entry [id, record].
HistoryItemOf(entry) ==
    LET record == entry.value
        isString(item) == item.isString
        kept == SelectSeq(record.questions.items, IsExamQuestionRecord)
    IN  [id |-> entry.id,
         totalQuestions |-> NumberOrZero(record.totalQuestions),
         score |-> NumberOrZero(record.score),
         selectedCategories |->
             LET strings == SelectSeq(record.selectedCategories.items, isString)
             IN  [i \in DOMAIN strings |-> strings[i].text],
         submittedAt |-> IF record.submittedAt.isString
                         THEN record.submittedAt.text ELSE EpochStart,
         questions |-> [i \in DOMAIN kept |-> ExamQuestionOf(kept[i])]]

\* items with item put before the first one submitted earlier (stable sort
\* on submittedAt, latest first)
InsertItem(sorted, item) ==
    LET before == {i \in DOMAIN sorted : sorted[i].submittedAt < item.submittedAt}
        at == IF before = {} THEN Len(sorted) + 1
              ELSE CHOOSE i \in before : \A j \in before : i <= j
    IN  SubSeq(sorted, 1, at - 1) \o <<item>> \o SubSeq(sorted, at, Len(sorted))

RECURSIVE SortItems(_, _)
SortItems(items, n) ==
    IF n = 0 THEN <<>> ELSE InsertItem(SortItems(items, n - 1), items[n])

\* getMockExamHistory on the entries of mockExamHistory/users/{userKey}
getMockExamHistory(entries) ==
    LET items == [i \in DOMAIN entries |-> HistoryItemOf(entries[i])]
    IN  SortItems(items, Len(items))

(***************************************************************************)
(* SpecHistory: one user saving mock exams (MockExam.submitExam) and       *)
(* reviewing and retaking them in the history view (MockExamHistory)       *)
(***************************************************************************)
\* A question of a mock exam, as the normalizer of MockExam.tsx yields it.
ExamQuestion(id, category, correctIndex) ==
    [id |-> id, question |-> <<"q">>, category |-> category,
     options |-> << <<"x">>, <<"y">> >>, correctIndex |-> correctIndex]

\* The exams startExam can set up, and the categories selected on submission.
Exams ==
    { <<ExamQuestion("a", "General Information", 0)>>,
      <<ExamQuestion("a", "General Information", 0),
        ExamQuestion("c", "Verbal Ability", 1)>> }
ExamCategories == { <<>>, QUESTION_CATEGORIES }

\* new Date().toISOString() of the next submission, as a time
NextTime == Len(remoteHistory) + 1

\* The record submitExam hands to saveMockExamRecord.
ExamRecordOf(examQuestions, answers, categories) ==
    [totalQuestions |-> Len(examQuestions),
     score |-> Cardinality({i \in DOMAIN examQuestions :
                   answers[examQuestions[i].id] = examQuestions[i].correctIndex}),
     selectedCategories |-> categories,
     submittedAt |-> NextTime,
     isRetake |-> FALSE,
     retakeOfAttemptId |-> NoAttempt,
     questions |-> [i \in DOMAIN examQuestions |->
         [id |-> examQuestions[i].id,
          question |-> examQuestions[i].question,
          category |-> examQuestions[i].category,
          options |-> examQuestions[i].options,
          correctIndex |-> examQuestions[i].correctIndex,
          selectedIndex |-> answers[examQuestions[i].id]]]]

\* saveMockExamRecord: push gives the next key, set stores the record.
saveMockExamRecord(record) ==
    /\ remoteHistory' =
           Append(remoteHistory,
                  [id |-> Len(remoteHistory) + 1, value |-> StoredExamRecord(record)])
    /\ savedRecords' = Append(savedRecords, record)

\* An attempt stored by a version of the application that kept no questions.
EarlierRecord ==
    [totalQuestions |-> 2, score |-> 1,
     selectedCategories |-> <<"General Information">>, submittedAt |-> 1,
     isRetake |-> FALSE, retakeOfAttemptId |-> NoAttempt, questions |-> <<>>]

\* The history view after its first render, loadHistory in flight.
HistoryInit ==
    /\ userEmail \in {"", "u1"}
    /\ savedRecords \in {<<>>, <<EarlierRecord>>}
    /\ remoteHistory = [i \in DOMAIN savedRecords |->
                           [id |-> i, value |-> StoredExamRecord(savedRecords[i])]]
    /\ history = <<>>
    /\ selectedAttemptId = NoAttempt
    /\ retakeAnswers = <<>>
    /\ isRetakeMode = FALSE
    /\ isSavingRetake = FALSE
    /\ historyIsLoading = TRUE
    /\ historyError = FALSE
    /\ SamplerIdle("idle")
    /\ WeightIdle("idle")
    /\ StoreIdle
    /\ PracticeIdle
    /\ DashboardIdle
    /\ FormsIdle
    /\ OthersIdle

HistoryViewUnchanged ==
    UNCHANGED <<history, selectedAttemptId, retakeAnswers, isRetakeMode,
                isSavingRetake, historyIsLoading, historyError>>

\* MockExam.submitExam of a logged-in user whose save succeeds.
submitExam(examQuestions, answers, categories) ==
    /\ userEmail # ""
    /\ Len(remoteHistory) < MaxAttempts
    /\ saveMockExamRecord(ExamRecordOf(examQuestions, answers, categories))
    /\ UNCHANGED userEmail
    /\ HistoryViewUnchanged
    /\ UNCHANGED notHistory

\* The history page is opened again: the component is mounted anew.
openHistory ==
    /\ ~historyIsLoading
    /\ ~isSavingRetake
    /\ history' = <<>>
    /\ selectedAttemptId' = NoAttempt
    /\ retakeAnswers' = <<>>
    /\ isRetakeMode' = FALSE
    /\ historyIsLoading' = TRUE
    /\ historyError' = FALSE
    /\ UNCHANGED <<userEmail, remoteHistory, savedRecords, isSavingRetake>>
    /\ UNCHANGED notHistory

\* The effect on [history]: nothing stays selected in an empty history.
SelectedAfter(nextHistory, selected) ==
    IF Len(nextHistory) = 0 THEN NoAttempt ELSE selected

\* loadHistory: nobody is logged in, or getMockExamHistory resolves.
loadHistoryLoaded ==
    /\ historyIsLoading
    /\ history' = IF userEmail = "" THEN <<>> ELSE getMockExamHistory(remoteHistory)
    /\ selectedAttemptId' = SelectedAfter(history', selectedAttemptId)
    /\ historyIsLoading' = FALSE
    /\ UNCHANGED <<userEmail, remoteHistory, savedRecords, retakeAnswers,
                   isRetakeMode, isSavingRetake, historyError>>
    /\ UNCHANGED notHistory

\* loadHistory: getMockExamHistory rejects.
loadHistoryFailed ==
    /\ historyIsLoading
    /\ userEmail # ""
    /\ historyError' = TRUE
    /\ historyIsLoading' = FALSE
    /\ UNCHANGED <<userEmail, remoteHistory, savedRecords, history,
                   selectedAttemptId, retakeAnswers, isRetakeMode,
                   isSavingRetake>>
    /\ UNCHANGED notHistory

\* history.find((item) => item.id === selectedAttemptId) ?? null, as the set
\* of the positions of the attempt found (none or one).
SelectedAttemptAt ==
    LET found == {i \in DOMAIN history : history[i].id = selectedAttemptId}
    IN  IF found = {} THEN {} ELSE {CHOOSE i \in found : \A j \in found : i <= j}

\* getAnswerKey(question)
getAnswerKey(question) == <<question.category, question.id>>

\* Math.round((score / totalQuestions) * 100)
Percentage(score, totalQuestions) ==
    (200 * score + totalQuestions) \div (2 * totalQuestions)

\* The list of attempts is rendered.
HistoryListShown ==
    userEmail # "" /\ ~historyIsLoading /\ ~historyError /\ Len(history) > 0

\* A click on View Attempt Details of the i-th attempt of the list.
viewAttempt(i) ==
    /\ HistoryListShown
    /\ SelectedAttemptAt = {}
    /\ selectedAttemptId' = history[i].id
    /\ isRetakeMode' = FALSE
    /\ retakeAnswers' = <<>>
    /\ UNCHANGED <<userEmail, remoteHistory, savedRecords, history,
                   isSavingRetake, historyIsLoading, historyError>>
    /\ UNCHANGED notHistory

closeModal ==
    /\ SelectedAttemptAt # {}
    /\ selectedAttemptId' = NoAttempt
    /\ retakeAnswers' = <<>>
    /\ isRetakeMode' = FALSE
    /\ UNCHANGED <<userEmail, remoteHistory, savedRecords, history,
                   isSavingRetake, historyIsLoading, historyError>>
    /\ UNCHANGED notHistory

\* A click on Retake Exam in the details of an attempt scored below 80%.
retakeExam ==
    /\ \E at \in SelectedAttemptAt :
           /\ Len(history[at].questions) > 0
           /\ history[at].totalQuestions > 0
           /\ Percentage(history[at].score, history[at].totalQuestions) < 80
    /\ ~isRetakeMode
    /\ isRetakeMode' = TRUE
    /\ retakeAnswers' = <<>>
    /\ UNCHANGED <<userEmail, remoteHistory, savedRecords, history,
                   selectedAttemptId, isSavingRetake, historyIsLoading,
                   historyError>>
    /\ UNCHANGED notHistory

\* An option of the n-th question of the retake is chosen.
answerRetake(n, optionIndex) ==
    /\ isRetakeMode
    /\ \E at \in SelectedAttemptAt :
           /\ n \in DOMAIN history[at].questions
           /\ LET key == getAnswerKey(history[at].questions[n])
              IN  retakeAnswers' =
                      [k \in DOMAIN retakeAnswers \cup {key} |->
                          IF k = key THEN optionIndex ELSE retakeAnswers[k]]
    /\ UNCHANGED <<userEmail, remoteHistory, savedRecords, history,
                   selectedAttemptId, isRetakeMode, isSavingRetake,
                   historyIsLoading, historyError>>
    /\ UNCHANGED notHistory

\* retakeAnswers[getAnswerKey(question)] (undefined is no index)
RetakeAnswerOf(question) ==
    IF getAnswerKey(question) \in DOMAIN retakeAnswers
    THEN retakeAnswers[getAnswerKey(question)]
    ELSE NoSelection

\* The record submitRetake hands to saveMockExamRecord.
RetakeRecordOf(attempt) ==
    [totalQuestions |-> Len(attempt.questions),
     score |-> Cardinality({i \in DOMAIN attempt.questions :
                   RetakeAnswerOf(attempt.questions[i])
                       = attempt.questions[i].correctIndex}),
     selectedCategories |-> attempt.selectedCategories,
     submittedAt |-> NextTime,
     isRetake |-> TRUE,
     retakeOfAttemptId |-> attempt.id,
     questions |-> [i \in DOMAIN attempt.questions |->
         [attempt.questions[i] EXCEPT
             !.selectedIndex = RetakeAnswerOf(attempt.questions[i])]]]

\* Submit Retake is rendered and enabled.
CanSubmitRetake ==
    /\ isRetakeMode
    /\ ~isSavingRetake
    /\ userEmail # ""
    /\ \E at \in SelectedAttemptAt :
           /\ Len(history[at].questions) > 0
           /\ Cardinality(DOMAIN retakeAnswers) = Len(history[at].questions)

\* submitRetake up to the end of saveMockExamRecord, which resolves.
submitRetake ==
    /\ CanSubmitRetake
    /\ Len(remoteHistory) < MaxAttempts
    /\ \E at \in SelectedAttemptAt :
           saveMockExamRecord(RetakeRecordOf(history[at]))
    /\ isSavingRetake' = TRUE
    /\ historyError' = FALSE
    /\ UNCHANGED <<userEmail, history, selectedAttemptId, retakeAnswers,
                   isRetakeMode, historyIsLoading>>
    /\ UNCHANGED notHistory

\* submitRetake when saveMockExamRecord rejects.
submitRetakeFailed ==
    /\ CanSubmitRetake
    /\ historyError' = TRUE
    /\ UNCHANGED <<userEmail, remoteHistory, savedRecords, history,
                   selectedAttemptId, retakeAnswers, isRetakeMode,
                   isSavingRetake, historyIsLoading>>
    /\ UNCHANGED notHistory

\* submitRetake after the save: the history is read again, the modal closed.
submitRetakeReloaded ==
    /\ isSavingRetake
    /\ history' = getMockExamHistory(remoteHistory)
    /\ selectedAttemptId' = NoAttempt
    /\ retakeAnswers' = <<>>
    /\ isRetakeMode' = FALSE
    /\ isSavingRetake' = FALSE
    /\ UNCHANGED <<userEmail, remoteHistory, savedRecords, historyIsLoading,
                   historyError>>
    /\ UNCHANGED notHistory

\* submitRetake after the save, when getMockExamHistory rejects.
submitRetakeReloadFailed ==
    /\ isSavingRetake
    /\ historyError' = TRUE
    /\ isSavingRetake' = FALSE
    /\ UNCHANGED <<userEmail, remoteHistory, savedRecords, history,
                   selectedAttemptId, retakeAnswers, isRetakeMode,
                   historyIsLoading>>
    /\ UNCHANGED notHistory

HistoryNext ==
    \/ \E examQuestions \in Exams, categories \in ExamCategories :
         \E answers \in [{examQuestions[i].id : i \in DOMAIN examQuestions}
                            -> OptionIndices] :
             submitExam(examQuestions, answers, categories)
    \/ openHistory
    \/ loadHistoryLoaded
    \/ loadHistoryFailed
    \/ \E i \in DOMAIN history : viewAttempt(i)
    \/ closeModal
    \/ retakeExam
    \/ \E n \in 1..2, optionIndex \in OptionIndices : answerRetake(n, optionIndex)
    \/ submitRetake
    \/ submitRetakeFailed
    \/ submitRetakeReloaded
    \/ submitRetakeReloadFailed

SpecHistory == HistoryInit /\ [][HistoryNext]_vars

\* ---- Claims on the mock exam history ----

\* The item getMockExamHistory returns for the i-th saved record, as a set
\* (empty when the record is not returned).
ReturnedFor(i) ==
    LET items == getMockExamHistory(remoteHistory)
    IN  {items[k] : k \in {j \in DOMAIN items : items[j].id = i}}

\* C14: every attempt saved by saveMockExamRecord is returned by
\* getMockExamHistory of the same user key with the same number of questions,
\* score and selected categories, and its embedded questions come back in the
\* same order with the same selected and correct index each.
C14_SavedAttemptRoundTrip ==
    \A i \in DOMAIN savedRecords :
        /\ ReturnedFor(i) # {}
        /\ \A item \in ReturnedFor(i) :
               /\ item.totalQuestions = savedRecords[i].totalQuestions
               /\ item.score = savedRecords[i].score
               /\ item.selectedCategories = savedRecords[i].selectedCategories
               /\ Len(item.questions) = Len(savedRecords[i].questions)
               /\ \A n \in DOMAIN item.questions :
                      /\ item.questions[n].selectedIndex
                             = savedRecords[i].questions[n].selectedIndex
                      /\ item.questions[n].correctIndex
                             = savedRecords[i].questions[n].correctIndex

\* An exam of two questions, one answered correctly, with its categories has
\* been saved and is shown in the history loaded afterwards.
C14_Witness ==
    /\ ~historyIsLoading
    /\ \E k \in DOMAIN history :
           /\ Len(history[k].questions) = 2
           /\ history[k].score = 1
           /\ history[k].selectedCategories = QUESTION_CATEGORIES
           /\ history[k].questions[1].selectedIndex
                  = history[k].questions[1].correctIndex
           /\ history[k].questions[2].selectedIndex
                  # history[k].questions[2].correctIndex
           /\ savedRecords[history[k].id].totalQuestions = 2

\* C15: a retake record saved by submitRetake is returned by
\* getMockExamHistory marked as a retake and referencing the id of the attempt
\* it was taken of.
C15_RetakeMarkSurvives ==
    \A i \in DOMAIN savedRecords :
        savedRecords[i].isRetake =>
            /\ ReturnedFor(i) # {}
            /\ \A item \in ReturnedFor(i) :
                   /\ "isRetake" \in DOMAIN item
                   /\ item.isRetake
                   /\ "retakeOfAttemptId" \in DOMAIN item
                   /\ item.retakeOfAttemptId = savedRecords[i].retakeOfAttemptId

(***************************************************************************)
(* SpecAdmin: the review queue of components/AdminConfig.tsx.  An approve  *)
(* is a POST to questions/{category} followed by a DELETE of the pending   *)
(* question, a reject is the DELETE alone; every request is a step of its  *)
(* own and may fail, in which case it has changed nothing in the store.    *)
(***************************************************************************)

\* A PendingQuestion as normalizePendingQuestions returns it.
PendingQuestion(id, category, text, createdAt) ==
    [id |-> id, category |-> category, question |-> text,
     options |-> <<"x", "y">>, correctIndex |-> 0, createdAt |-> createdAt]

\* The questions users have submitted.
Submitted ==
    { PendingQuestion("p1", "General Information", "q1", 1),
      PendingQuestion("p2", "Verbal Ability", "q2", 2) }

PendingIds == {p.id : p \in Submitted}
PendingOf(id) == CHOOSE p \in Submitted : p.id = id

\* The body handleApprove posts to questions/{category}.
PublishedOf(pending) ==
    [question |-> pending.question, category |-> pending.category,
     options |-> pending.options, correctIndex |-> pending.correctIndex,
     status |-> "approved"]

\* pending questions with item put before the first one created earlier
InsertPending(sorted, item) ==
    LET before == {i \in DOMAIN sorted : sorted[i].createdAt < item.createdAt}
        at == IF before = {} THEN Len(sorted) + 1
              ELSE CHOOSE i \in before : \A j \in before : i <= j
    IN  SubSeq(sorted, 1, at - 1) \o <<item>> \o SubSeq(sorted, at, Len(sorted))

RECURSIVE SortedPending(_)
\* groupedPending.flat().sort(...) of the questions stored under ids
SortedPending(ids) ==
    IF ids = {} THEN <<>>
    ELSE LET id == CHOOSE x \in ids : \A y \in ids : PendingOf(x).createdAt <= PendingOf(y).createdAt
         IN  InsertPending(SortedPending(ids \ {id}), PendingOf(id))

\* current.filter((item) => item.id !== id)
WithoutQuestion(current, id) ==
    LET keeps(item) == item.id # id IN SelectSeq(current, keeps)

\* seq without its i-th element
RemoveAt(seq, i) == SubSeq(seq, 1, i - 1) \o SubSeq(seq, i + 1, Len(seq))

Ended(kind, id) == [kind |-> kind, id |-> id]

\* The review queue after its first render, loadPendingQuestions in flight.
AdminInit ==
    /\ remotePending \in {{"p1"}, PendingIds}
    /\ remotePublished = <<>>
    /\ pendingQuestions = <<>>
    /\ isLoadingPending = TRUE
    /\ pendingMessage = ""
    /\ processingQuestionId = NotProcessing
    /\ inFlight = <<>>
    /\ adminStarted = 0
    /\ adminLastOp = Ended("", NotProcessing)
    /\ SamplerIdle("idle")
    /\ WeightIdle("idle")
    /\ StoreIdle
    /\ PracticeIdle
    /\ DashboardIdle
    /\ HistoryIdle
    /\ NormalizeIdle
    /\ AddIdle
    /\ OthersIdle

\* A click on Refresh.
loadPendingQuestions ==
    /\ ~isLoadingPending
    /\ isLoadingPending' = TRUE
    /\ pendingMessage' = ""
    /\ adminLastOp' = Ended("", NotProcessing)
    /\ UNCHANGED <<remotePending, remotePublished, pendingQuestions,
                   processingQuestionId, inFlight, adminStarted>>
    /\ UNCHANGED notAdmin

\* loadPendingQuestions when every category request has succeeded.
loadPendingQuestionsLoaded ==
    /\ isLoadingPending
    /\ pendingQuestions' = SortedPending(remotePending)
    /\ isLoadingPending' = FALSE
    /\ adminLastOp' = Ended("", NotProcessing)
    /\ UNCHANGED <<remotePending, remotePublished, pendingMessage,
                   processingQuestionId, inFlight, adminStarted>>
    /\ UNCHANGED notAdmin

\* loadPendingQuestions when a category request has failed.
loadPendingQuestionsFailed ==
    /\ isLoadingPending
    /\ pendingMessage' = "Unable to load user submissions right now."
    /\ isLoadingPending' = FALSE
    /\ adminLastOp' = Ended("", NotProcessing)
    /\ UNCHANGED <<remotePending, remotePublished, pendingQuestions,
                   processingQuestionId, inFlight, adminStarted>>
    /\ UNCHANGED notAdmin

\* The Approve and Reject buttons of the question are rendered and enabled.
ControlsEnabled(id) ==
    /\ ~isLoadingPending
    /\ \E i \in DOMAIN pendingQuestions : pendingQuestions[i].id = id
    /\ processingQuestionId # id

\* handleApprove up to its POST to questions/{category}.
handleApprove(id) ==
    /\ ControlsEnabled(id)
    /\ adminStarted < MaxOps
    /\ adminStarted' = adminStarted + 1
    /\ processingQuestionId' = id
    /\ pendingMessage' = ""
    /\ inFlight' = Append(inFlight, [kind |-> "approve", id |-> id, pc |-> "publish"])
    /\ adminLastOp' = Ended("", NotProcessing)
    /\ UNCHANGED <<remotePending, remotePublished, pendingQuestions,
                   isLoadingPending>>
    /\ UNCHANGED notAdmin

\* handleReject up to its call of removeFromPending.
handleReject(id) ==
    /\ ControlsEnabled(id)
    /\ adminStarted < MaxOps
    /\ adminStarted' = adminStarted + 1
    /\ processingQuestionId' = id
    /\ pendingMessage' = ""
    /\ inFlight' = Append(inFlight, [kind |-> "reject", id |-> id, pc |-> "remove"])
    /\ adminLastOp' = Ended("", NotProcessing)
    /\ UNCHANGED <<remotePending, remotePublished, pendingQuestions,
                   isLoadingPending>>
    /\ UNCHANGED notAdmin

\* The POST of the i-th operation has been answered with ok.
handleApprovePublished(i) ==
    /\ inFlight[i].pc = "publish"
    /\ remotePublished' = Append(remotePublished, PublishedOf(PendingOf(inFlight[i].id)))
    /\ inFlight' = [inFlight EXCEPT ![i].pc = "remove"]
    /\ adminLastOp' = Ended("", NotProcessing)
    /\ UNCHANGED <<remotePending, pendingQuestions, isLoadingPending,
                   pendingMessage, processingQuestionId, adminStarted>>
    /\ UNCHANGED notAdmin

\* The catch and finally blocks of the i-th operation.
Failed(i, message) ==
    /\ pendingMessage' = message
    /\ processingQuestionId' = NotProcessing
    /\ inFlight' = RemoveAt(inFlight, i)
    /\ adminLastOp' = Ended("failed", inFlight[i].id)
    /\ UNCHANGED <<remotePending, remotePublished, pendingQuestions,
                   isLoadingPending, adminStarted>>
    /\ UNCHANGED notAdmin

\* The POST of the i-th operation has failed.
handleApprovePublishFailed(i) ==
    /\ inFlight[i].pc = "publish"
    /\ Failed(i, "Approving question failed.")

\* removeFromPending of the i-th operation has resolved; the handler ends.
removeFromPendingDone(i) ==
    /\ inFlight[i].pc = "remove"
    /\ remotePending' = remotePending \ {inFlight[i].id}
    /\ pendingQuestions' = WithoutQuestion(pendingQuestions, inFlight[i].id)
    /\ pendingMessage' = IF inFlight[i].kind = "approve"
                         THEN "Question approved and published."
                         ELSE "Question rejected and removed from queue."
    /\ processingQuestionId' = NotProcessing
    /\ inFlight' = RemoveAt(inFlight, i)
    /\ adminLastOp' = Ended(IF inFlight[i].kind = "approve"
                            THEN "approved" ELSE "rejected", inFlight[i].id)
    /\ UNCHANGED <<remotePublished, isLoadingPending, adminStarted>>
    /\ UNCHANGED notAdmin

\* removeFromPending of the i-th operation has thrown.
removeFromPendingFailed(i) ==
    /\ inFlight[i].pc = "remove"
    /\ Failed(i, IF inFlight[i].kind = "approve"
                 THEN "Approving question failed."
                 ELSE "Rejecting question failed.")

AdminNext ==
    \/ loadPendingQuestions
    \/ loadPendingQuestionsLoaded
    \/ loadPendingQuestionsFailed
    \/ \E id \in PendingIds : handleApprove(id)
    \/ \E id \in PendingIds : handleReject(id)
    \/ \E i \in DOMAIN inFlight : handleApprovePublished(i)
    \/ \E i \in DOMAIN inFlight : handleApprovePublishFailed(i)
    \/ \E i \in DOMAIN inFlight : removeFromPendingDone(i)
    \/ \E i \in DOMAIN inFlight : removeFromPendingFailed(i)

SpecAdmin == AdminInit /\ [][AdminNext]_vars

\* ---- Claims on the review queue ----

\* The published questions that carry the content of the pending question id.
PublishedCopies(id) ==
    {i \in DOMAIN remotePublished :
        /\ remotePublished[i].question = PendingOf(id).question
        /\ remotePublished[i].options = PendingOf(id).options
        /\ remotePublished[i].correctIndex = PendingOf(id).correctIndex
        /\ remotePublished[i].category = PendingOf(id).category}

\* C16: when handleApprove of a pending question has settled successfully,
\* exactly one published question with its text, options, correct index and
\* category exists under questions/ and the question is no longer stored
\* under pendingQuestions/.
C16_ApprovedIsMovedOnce ==
    adminLastOp.kind = "approved" =>
        /\ Cardinality(PublishedCopies(adminLastOp.id)) = 1
        /\ adminLastOp.id \notin remotePending

\* C19: while an approve or reject of a pending question is in flight, the
\* Approve and Reject buttons of that question are not enabled, whatever is
\* started or settled on other questions meanwhile, and no question has two
\* operations in flight at once.
C19_ControlsDisabledWhileInFlight ==
    /\ \A i \in DOMAIN inFlight : ~ControlsEnabled(inFlight[i].id)
    /\ \A i, j \in DOMAIN inFlight : i # j => inFlight[i].id # inFlight[j].id

\* C25: whatever approve and reject attempts are made on a pending question,
\* failed and retried ones included, at most one published copy of it ever
\* exists, and when no attempt on it is in flight it is not both published
\* and still in the pending queue.
C25_AtMostOneCopyAndNeverBoth ==
    \A id \in PendingIds :
        /\ Cardinality(PublishedCopies(id)) <= 1
        /\ (\A i \in DOMAIN inFlight : inFlight[i].id # id) =>
              ~(PublishedCopies(id) # {} /\ id \in remotePending)

(***************************************************************************)
(* SpecNormalize: the four normalizers (Questioner, MockExam,              *)
(* QuestionsDashboard, AdminConfig) applied to one stored question         *)
(***************************************************************************)

\* Boolean(item) of an option
Truthy(item) == item.isString /\ item.text # <<>>

\* Questioner.tsx and MockExam.tsx: Array.isArray(options) &&
\* options.length > 0 && options.every(Boolean)
HasValidOptions(options) ==
    /\ options.isArray
    /\ Len(options.items) > 0
    /\ \A i \in DOMAIN options.items : Truthy(options.items[i])

\* The test of normalizeQuestions of Questioner.tsx (and MockExam.tsx).
Keeps(value) ==
    LET hasValidOptions == HasValidOptions(value.options)
    IN  /\ value.question # <<>>
        /\ hasValidOptions
        /\ HasValidCorrectIndex(value.correctIndex, value.options, hasValidOptions)

\* The QuestionItem of an entry that is kept: question and options as stored.
QuestionItemOf(category, entry) ==
    [id |-> entry.id,
     category |-> category,
     question |-> entry.value.question,
     options |-> [i \in DOMAIN entry.value.options.items |->
                     entry.value.options.items[i].text],
     correctIndex |-> entry.value.correctIndex]

\* normalizeQuestions of Questioner.tsx
RECURSIVE normalizeQuestions(_, _)
normalizeQuestions(category, payload) ==
    IF payload = <<>> THEN <<>>
    ELSE (IF Keeps(Head(payload).value)
          THEN <<QuestionItemOf(category, Head(payload))>>
          ELSE <<>>)
         \o normalizeQuestions(category, Tail(payload))

\* normalizeQuestions of MockExam.tsx: the same tests (the hint differs).
MockExamNormalizeQuestions(category, payload) ==
    LET keeps(entry) == Keeps(entry.value)
        kept == SelectSeq(payload, keeps)
    IN  [i \in DOMAIN kept |-> QuestionItemOf(category, kept[i])]

\* AdminConfig.tsx: rawValue.options?.map((option) => option.trim()) ?? [];
\* option.trim() throws on an option that is not a string.
PendingOptionsThrow(options) ==
    \E i \in DOMAIN options.items : ~options.items[i].isString

PendingKeeps(value) ==
    /\ Trim(value.question) # <<>>
    /\ Len(value.options.items) > 0
    /\ \A i \in DOMAIN value.options.items :
           Trim(value.options.items[i].text) # <<>>
    /\ value.correctIndex.isNumber
    /\ value.correctIndex.n >= 0
    /\ value.correctIndex.n < value.correctIndex.d * Len(value.options.items)

\* normalizePendingQuestions of AdminConfig.tsx; when it throws, the load
\* fails and no question is produced.
normalizePendingQuestions(category, payload) ==
    LET throws == \E i \in DOMAIN payload : PendingOptionsThrow(payload[i].value.options)
        keeps(entry) == PendingKeeps(entry.value)
        kept == SelectSeq(payload, keeps)
    IN  IF throws THEN <<>>
        ELSE [i \in DOMAIN kept |-> DashboardQuestionOf(category, kept[i])]

\* What can be stored as the text, the options and the correct index of a
\* question (the store is written by other clients and by hand).
RawTexts == { <<>>, <<" ">>, <<"q">> }
RawOptions ==
    { NotAnArray, ArrayOf(<<>>),
      ArrayOf(<<StringItem(<<"x">>)>>),
      ArrayOf(<<StringItem(<<" ">>)>>),
      ArrayOf(<<StringItem(<<"x">>), StringItem(<<" ", "y">>)>>),
      ArrayOf(<<StringItem(<<"x">>), NullItem>>),
      ArrayOf(<<StringItem(<<"x">>), StringItem(<<>>)>>) }
RawIndices ==
    { NotANumber, NumberOf(-1, 1), NumberOf(0, 1), NumberOf(1, 2),
      NumberOf(1, 1), NumberOf(2, 1) }

NormalizeInit ==
    /\ rawValue \in {RawQuestion(text, options, correctIndex) :
                        text \in RawTexts, options \in RawOptions,
                        correctIndex \in RawIndices}
    /\ normalizedBy = ""
    /\ normalized = <<>>
    /\ SamplerIdle("idle")
    /\ WeightIdle("idle")
    /\ StoreIdle
    /\ PracticeIdle
    /\ DashboardIdle
    /\ HistoryIdle
    /\ AdminIdle
    /\ AddIdle
    /\ OthersIdle

\* The payload of the category holding the stored question.
PayloadRead == <<Entry("a", rawValue)>>

applyQuestioner ==
    /\ normalizedBy = ""
    /\ normalized' = normalizeQuestions("General Information", PayloadRead)
    /\ normalizedBy' = "Questioner"
    /\ UNCHANGED rawValue
    /\ UNCHANGED notNormalize

applyMockExam ==
    /\ normalizedBy = ""
    /\ normalized' = MockExamNormalizeQuestions("General Information", PayloadRead)
    /\ normalizedBy' = "MockExam"
    /\ UNCHANGED rawValue
    /\ UNCHANGED notNormalize

applyDashboard ==
    /\ normalizedBy = ""
    /\ normalized' = DashboardNormalizeQuestions("General Information", PayloadRead)
    /\ normalizedBy' = "QuestionsDashboard"
    /\ UNCHANGED rawValue
    /\ UNCHANGED notNormalize

applyAdminConfig ==
    /\ normalizedBy = ""
    /\ normalized' = normalizePendingQuestions("General Information", PayloadRead)
    /\ normalizedBy' = "AdminConfig"
    /\ UNCHANGED rawValue
    /\ UNCHANGED notNormalize

NormalizeNext ==
    \/ applyQuestioner
    \/ applyMockExam
    \/ applyDashboard
    \/ applyAdminConfig

SpecNormalize == NormalizeInit /\ [][NormalizeNext]_vars

\* ---- Claims on the normalizers ----

\* C17: every question a normalizer produces has at least one option, every
\* option non-empty after trimming, and a correctIndex that is an integer
\* with 0 <= correctIndex < options.length.
C17_NormalizedQuestionsAreValid ==
    \A i \in DOMAIN normalized :
        /\ Len(normalized[i].options) >= 1
        /\ \A o \in DOMAIN normalized[i].options :
               Trim(normalized[i].options[o]) # <<>>
        /\ normalized[i].correctIndex.isNumber
        /\ normalized[i].correctIndex.n % normalized[i].correctIndex.d = 0
        /\ normalized[i].correctIndex.n >= 0
        /\ normalized[i].correctIndex.n
               < normalized[i].correctIndex.d * Len(normalized[i].options)

(***************************************************************************)
(* SpecAddQuestion: handleSubmit of components/AddQuestion.tsx.  A text is *)
(* the sequence of its characters; the bulk text is the sequence of its    *)
(* lines (split("\n")) and a line the sequence of its columns (split("|")).*)
(***************************************************************************)

\* character.toLowerCase()
LowerOf(character) ==
    IF character = "H" THEN "h"
    ELSE IF character = "B" THEN "b"
    ELSE character

\* text.toLowerCase()
ToLowerCase(text) == [i \in DOMAIN text |-> LowerOf(text[i])]

HintPrefix == <<"h", "i", "n", "t", ":">>

\* token.toLowerCase().startsWith("hint:")
StartsWithHint(token) ==
    /\ Len(token) >= Len(HintPrefix)
    /\ SubSeq(ToLowerCase(token), 1, Len(HintPrefix)) = HintPrefix

\* option.startsWith("*")
StartsWithStar(token) == token # <<>> /\ Head(token) = "*"

\* line.split("|").map((column) => column.trim()).filter(Boolean)
ColumnsOf(line) ==
    LET trimmed == [i \in DOMAIN line |-> Trim(line[i])]
        nonEmpty(column) == column # <<>>
    IN  SelectSeq(trimmed, nonEmpty)

\* The option tokens of a line: the columns after the question, without a
\* trailing hint.
OptionTokens(line) ==
    LET tokens == Tail(ColumnsOf(line))
    IN  IF tokens # <<>> /\ StartsWithHint(tokens[Len(tokens)])
        THEN SubSeq(tokens, 1, Len(tokens) - 1)
        ELSE tokens

\* optionTokens.findIndex((option) => option.startsWith("*"))
FindStar(tokens) ==
    LET starred == {i \in DOMAIN tokens : StartsWithStar(tokens[i])}
    IN  IF starred = {} THEN -1
        ELSE (CHOOSE i \in starred : \A j \in starred : i <= j) - 1

\* parseBulkLine throws on the line.
parseBulkLineThrows(line) ==
    \/ Len(ColumnsOf(line)) < 3
    \/ Len(OptionTokens(line)) < 2
    \/ FindStar(OptionTokens(line)) = -1

\* parseBulkLine on a line it accepts.
parseBulkLine(line, selectedCategory, admin) ==
    LET columns == ColumnsOf(line)
        tokens == Tail(columns)
        optionTokens == OptionTokens(line)
    IN  [question |-> columns[1],
         category |-> selectedCategory,
         options |-> [i \in DOMAIN optionTokens |->
                         Trim(IF StartsWithStar(optionTokens[i])
                              THEN Tail(optionTokens[i]) ELSE optionTokens[i])],
         correctIndex |-> FindStar(optionTokens),
         hint |-> IF Len(optionTokens) < Len(tokens)
                  THEN Trim(SubSeq(tokens[Len(tokens)], Len(HintPrefix) + 1,
                                   Len(tokens[Len(tokens)])))
                  ELSE <<>>,
         status |-> IF admin THEN "approved" ELSE "pending"]

\* bulkQuestionsText.split("\n").map((row) => row.trim()).filter(Boolean):
\* a line is dropped when it has one column and that column is blank.
RowsOf(text) ==
    LET notBlank(line) == ~(Len(line) = 1 /\ Trim(line[1]) = <<>>)
    IN  SelectSeq(text, notBlank)

\* Mutant: the rows parseBulkLine accepts are posted, the others skipped.
ParsedRowsSkippingInvalid(rows, selectedCategory, admin) ==
    LET accepted(line) == ~parseBulkLineThrows(line)
        kept == SelectSeq(rows, accepted)
    IN  [i \in DOMAIN kept |-> parseBulkLine(kept[i], selectedCategory, admin)]

\* rows.map((row, index) => parseBulkLine(row, ...)): the payloads handed to
\* fetch, none when parseBulkLine throws on a row.
ParsedRows(rows, selectedCategory, admin) ==
    IF \E i \in DOMAIN rows : parseBulkLineThrows(rows[i])
    THEN <<>>
    ELSE [i \in DOMAIN rows |-> parseBulkLine(rows[i], selectedCategory, admin)]

\* The alert of the checks handleSubmit makes before setIsSaving(true), ""
\* when all of them pass.
SubmitRefusal ==
    LET trimmedOptions == [i \in DOMAIN formOptions |-> Trim(formOptions[i])]
    IN  IF ~isAdmin /\ ~submissionsOpen
        THEN "Submissions are temporarily closed by admin."
        ELSE IF entryMode = "single" /\ Trim(formQuestion) = <<>>
        THEN "Please fill in the question."
        ELSE IF entryMode = "bulk" /\ RowsOf(bulkQuestionsText) = <<>>
        THEN "Please add or upload bulk questions before submitting."
        ELSE IF entryMode = "single"
                   /\ (trimmedOptions = <<>>
                       \/ \E i \in DOMAIN trimmedOptions : trimmedOptions[i] = <<>>)
        THEN "Please add at least one answer option."
        ELSE IF entryMode = "single"
                   /\ (formCorrectIndex = NoSelection
                       \/ formCorrectIndex + 1 \notin DOMAIN formOptions
                       \/ Trim(formOptions[formCorrectIndex + 1]) = <<>>)
        THEN "Please select the correct answer."
        ELSE ""

\* The body of the POST of single mode.
SinglePayload ==
    [question |-> Trim(formQuestion),
     category |-> "General Information",
     options |-> [i \in DOMAIN formOptions |-> Trim(formOptions[i])],
     correctIndex |-> formCorrectIndex,
     hint |-> <<>>,
     status |-> IF isAdmin THEN "approved" ELSE "pending"]

\* The bodies of the POST requests handleSubmit issues once its checks have
\* passed, none when parseBulkLine throws.
PayloadsToPost ==
    IF entryMode = "bulk"
    THEN ParsedRows(RowsOf(bulkQuestionsText), "General Information", isAdmin)
    ELSE <<SinglePayload>>

\* Lines a user types or uploads.
GoodLine == << <<"q">>, <<"*", "x">>, <<" ", "y">> >>
HintedLine == << <<"r">>, <<"x">>, <<"*", "y">>, <<"H", "i", "n", "t", ":", "z">> >>
TwoStarsLine == << <<"q">>, <<"*", "x">>, <<"*", "y">> >>
BulkLines ==
    { GoodLine, HintedLine, TwoStarsLine,
      << <<"q">>, <<"*", "x">> >>,
      << <<"q">>, <<"x">>, <<"y">> >>,
      << <<"q">>, <<"*", "x">>, <<"h", "i", "n", "t", ":", "z">> >>,
      << <<" ">> >>,
      << <<" ">>, <<>> >> }

RECURSIVE TextsUpTo(_)
\* the texts of at most n lines
TextsUpTo(n) ==
    IF n = 0 THEN {<<>>}
    ELSE LET shorter == TextsUpTo(n - 1)
         IN  shorter \cup {Append(text, line) : text \in shorter, line \in BulkLines}

\* What the fields of single mode can hold.
FormTexts == { <<>>, <<" ">>, <<"q">> }
FormOptionLists ==
    { <<>>, << <<>>, <<>> >>, << <<"x">>, <<" ">> >>, << <<"x">>, <<"y">> >>,
      << <<"x">> >> }

\* The form after some typing, no submission in progress.
AddInit ==
    /\ isAdmin \in BOOLEAN
    /\ submissionsOpen \in BOOLEAN
    /\ entryMode \in {"single", "bulk"}
    /\ IF entryMode = "single"
       THEN /\ formQuestion \in FormTexts
            /\ formOptions \in FormOptionLists
            /\ formCorrectIndex \in {NoSelection} \cup OptionIndices
            /\ formCorrectIndex + 1 \in {0} \cup DOMAIN formOptions
            /\ bulkQuestionsText = <<>>
       ELSE /\ formQuestion = <<>>
            /\ formOptions = << <<>>, <<>> >>
            /\ formCorrectIndex = NoSelection
            /\ bulkQuestionsText \in TextsUpTo(MaxRows)
    /\ isSaving = FALSE
    /\ postsInFlight = <<>>
    /\ written = <<>>
    /\ alertShown = ""
    /\ submitCalls = 0
    /\ SamplerIdle("idle")
    /\ WeightIdle("idle")
    /\ StoreIdle
    /\ PracticeIdle
    /\ DashboardIdle
    /\ HistoryIdle
    /\ AdminIdle
    /\ NormalizeIdle
    /\ OthersIdle

\* handleSubmit up to its requests: an alert and no request when a check
\* fails or parseBulkLine throws (catch, finally), the POST requests else.
handleSubmit ==
    /\ ~isSaving
    /\ isAdmin \/ submissionsOpen
    /\ submitCalls < MaxSubmits
    /\ submitCalls' = submitCalls + 1
    /\ IF SubmitRefusal # ""
       THEN /\ alertShown' = SubmitRefusal
            /\ UNCHANGED <<isSaving, postsInFlight>>
       ELSE IF PayloadsToPost = <<>>
       THEN /\ alertShown' = "Invalid row"
            /\ UNCHANGED <<isSaving, postsInFlight>>
       ELSE /\ isSaving' = TRUE
            /\ postsInFlight' = [i \in DOMAIN PayloadsToPost |->
                                    [payload |-> PayloadsToPost[i], response |-> ""]]
            /\ UNCHANGED alertShown
    /\ UNCHANGED <<isAdmin, submissionsOpen, entryMode, formQuestion,
                   formOptions, formCorrectIndex, bulkQuestionsText, written>>
    /\ UNCHANGED notAdd

\* The i-th POST is stored and answered with ok.
postStored(i) ==
    /\ postsInFlight[i].response = ""
    /\ written' = Append(written, postsInFlight[i].payload)
    /\ postsInFlight' = [postsInFlight EXCEPT ![i].response = "ok"]
    /\ UNCHANGED <<isAdmin, submissionsOpen, entryMode, formQuestion,
                   formOptions, formCorrectIndex, bulkQuestionsText, isSaving,
                   alertShown, submitCalls>>
    /\ UNCHANGED notAdd

\* The i-th POST fails.
postFailed(i) ==
    /\ postsInFlight[i].response = ""
    /\ postsInFlight' = [postsInFlight EXCEPT ![i].response = "failed"]
    /\ UNCHANGED <<isAdmin, submissionsOpen, entryMode, formQuestion,
                   formOptions, formCorrectIndex, bulkQuestionsText, isSaving,
                   written, alertShown, submitCalls>>
    /\ UNCHANGED notAdd

\* handleSubmit after its requests: every response is ok.
handleSubmitSaved ==
    /\ isSaving
    /\ \A i \in DOMAIN postsInFlight : postsInFlight[i].response = "ok"
    /\ IF entryMode = "bulk"
       THEN /\ bulkQuestionsText' = <<>>
            /\ alertShown' = "Added questions successfully."
            /\ UNCHANGED <<formQuestion, formOptions, formCorrectIndex>>
       ELSE /\ formQuestion' = <<>>
            /\ formOptions' = << <<>>, <<>> >>
            /\ formCorrectIndex' = NoSelection
            /\ alertShown' = IF isAdmin THEN "Question added to Firebase."
                             ELSE "Question submitted successfully."
            /\ UNCHANGED bulkQuestionsText
    /\ isSaving' = FALSE
    /\ postsInFlight' = <<>>
    /\ UNCHANGED <<isAdmin, submissionsOpen, entryMode, written, submitCalls>>
    /\ UNCHANGED notAdd

\* handleSubmit after its requests: a response is not ok (catch, finally).
handleSubmitFailed ==
    /\ isSaving
    /\ \A i \in DOMAIN postsInFlight : postsInFlight[i].response # ""
    /\ \E i \in DOMAIN postsInFlight : postsInFlight[i].response = "failed"
    /\ alertShown' = "Firebase request failed"
    /\ isSaving' = FALSE
    /\ postsInFlight' = <<>>
    /\ UNCHANGED <<isAdmin, submissionsOpen, entryMode, formQuestion,
                   formOptions, formCorrectIndex, bulkQuestionsText, written,
                   submitCalls>>
    /\ UNCHANGED notAdd

AddNext ==
    \/ handleSubmit
    \/ \E i \in DOMAIN postsInFlight : postStored(i)
    \/ \E i \in DOMAIN postsInFlight : postFailed(i)
    \/ handleSubmitSaved
    \/ handleSubmitFailed

SpecAddQuestion == AddInit /\ [][AddNext]_vars

\* ---- Claims on the AddQuestion form ----

\* The submission fails the client-side validation: in single mode the
\* question or an option is empty or no correct option is chosen, in bulk
\* mode a row of the batch is malformed.
ValidationFails ==
    IF entryMode = "single"
    THEN \/ Trim(formQuestion) = <<>>
         \/ formOptions = <<>>
         \/ \E i \in DOMAIN formOptions : Trim(formOptions[i]) = <<>>
         \/ formCorrectIndex = NoSelection
    ELSE \/ RowsOf(bulkQuestionsText) = <<>>
         \/ \E i \in DOMAIN RowsOf(bulkQuestionsText) :
                parseBulkLineThrows(RowsOf(bulkQuestionsText)[i])

GeneralStatsRequest == "questionStats/general"
UserStatsRequest == "questionStats/users"

\* The promises handed to Promise.all.
LoadRequests == Categories \cup {GeneralStatsRequest, UserStatsRequest}

\* Mutant: the join waits for the category requests only.
CategoriesSucceeded == \A r \in Categories : requests[r] = "ok"

\* Promise.all fulfils: every promise has fulfilled.
AllSucceeded == \A r \in LoadRequests : requests[r] = "ok"

\* Promise.all rejects: a promise has rejected.
SomeFailed == \E r \in LoadRequests : requests[r] = "failed"

\* responses.flat(): the normalized questions of the categories, in the order
\* of QUESTION_CATEGORIES.
RECURSIVE ResponsesFlat(_)
ResponsesFlat(n) ==
    IF n = 0 THEN <<>>
    ELSE ResponsesFlat(n - 1) \o FilterPool(storedQuestions, QUESTION_CATEGORIES[n])

\* The component after its first render and effects, every request of
\* fetchQuestions in flight (without a user key the stats of the user are
\* Promise.resolve({})).
LoadInit ==
    /\ storedQuestions \in PracticeBanks
    /\ sessionUserKey \in {"", "u1"}
    /\ questions = <<>>
    /\ activeFilter = ALL_CATEGORIES
    /\ isMultiSelectEnabled = FALSE
    /\ selectedCategories = QUESTION_CATEGORIES
    /\ currentQuestion = NoQuestion
    /\ selectedIndex = NoSelection
    /\ userStatsByQuestion = <<>>
    /\ generalStatsByQuestion = <<>>
    /\ isLoading = TRUE
    /\ error = FALSE
    /\ effectDue = FALSE
    /\ nextFrom = ""
    /\ remoteGeneral \in {[EmptyGeneral EXCEPT !["a"].correct = general] :
                             general \in {Absent, Num(1)}}
    /\ remoteUsers = [EmptyUsers EXCEPT !["u1"]["a"].wrong = Num(1)]
    /\ generalBefore = remoteGeneral
    /\ usersBefore = remoteUsers
    /\ calls = <<>>
    /\ lastOp = "init"
    /\ requests = [r \in LoadRequests |->
                      IF r = UserStatsRequest /\ sessionUserKey = ""
                      THEN "ok" ELSE "pending"]
    /\ joined = "pending"
    /\ SamplerIdle("idle")
    /\ WeightIdle("idle")
    /\ DashboardIdle
    /\ HistoryIdle
    /\ FormsIdle
    /\ OthersIdle

\* What the load leaves alone.
LoadUntouched ==
    /\ UNCHANGED <<storedQuestions, sessionUserKey, activeFilter,
                   isMultiSelectEnabled, selectedCategories, currentQuestion,
                   selectedIndex, nextFrom>>
    /\ UNCHANGED storeVars
    /\ UNCHANGED <<samplerVars, weightVars, dashboardVars, historyVars, formVars,
                   otherVars>>

\* The request r is answered with ok (and a payload that parses).
requestSucceeded(r) ==
    /\ requests[r] = "pending"
    /\ requests' = [requests EXCEPT ![r] = "ok"]
    /\ UNCHANGED <<questions, userStatsByQuestion, generalStatsByQuestion,
                   isLoading, error, effectDue, joined>>
    /\ LoadUntouched

\* The request r fails (network error or a response that is not ok).
requestFailed(r) ==
    /\ requests[r] = "pending"
    /\ requests' = [requests EXCEPT ![r] = "failed"]
    /\ UNCHANGED <<questions, userStatsByQuestion, generalStatsByQuestion,
                   isLoading, error, effectDue, joined>>
    /\ LoadUntouched

\* fetchQuestions after the await, Promise.all fulfilled: the three setters
\* and the finally block.
fetchQuestionsFulfilled ==
    /\ joined = "pending"
    /\ AllSucceeded
    /\ joined' = "fulfilled"
    /\ questions' = ResponsesFlat(Len(QUESTION_CATEGORIES))
    /\ generalStatsByQuestion' = normalizeQuestionStats(SnapshotOf(remoteGeneral))
    /\ userStatsByQuestion' =
           IF sessionUserKey = "" THEN <<>>
           ELSE normalizeQuestionStats(SnapshotOf(remoteUsers[sessionUserKey]))
    /\ isLoading' = FALSE
    /\ effectDue' = TRUE
    /\ UNCHANGED <<requests, error>>
    /\ LoadUntouched

\* fetchQuestions after the await, Promise.all rejected: catch and finally.
fetchQuestionsRejected ==
    /\ joined = "pending"
    /\ SomeFailed
    /\ joined' = "rejected"
    /\ error' = TRUE
    /\ isLoading' = FALSE
    /\ UNCHANGED <<requests, questions, userStatsByQuestion,
                   generalStatsByQuestion, effectDue>>
    /\ LoadUntouched

LoadNext ==
    \/ \E r \in LoadRequests : requestSucceeded(r)
    \/ \E r \in LoadRequests : requestFailed(r)
    \/ fetchQuestionsFulfilled
    \/ fetchQuestionsRejected
    \/ nextQuestionEffect

SpecLoad == LoadInit /\ [][LoadNext]_vars

\* Every request is answered or fails in the end, and the continuation of an
\* await runs once its promise has settled.
LoadFairness ==
    /\ WF_vars(\E r \in LoadRequests : requestSucceeded(r) \/ requestFailed(r))
    /\ WF_vars(fetchQuestionsFulfilled)
    /\ WF_vars(fetchQuestionsRejected)

SpecLoadFair == SpecLoad /\ LoadFairness

\* ---- Claims on the initial load ----

NothingInstalled ==
    /\ questions = <<>>
    /\ generalStatsByQuestion = <<>>
    /\ userStatsByQuestion = <<>>

\* The three results are installed together, only when every request has
\* succeeded; a failed request leaves none installed and sets the error.
LoadAllOrNothing ==
    /\ joined = "pending" => NothingInstalled /\ isLoading /\ ~error
    /\ joined = "fulfilled" =>
           /\ \A r \in LoadRequests : requests[r] = "ok"
           /\ questions = storedQuestions
           /\ generalStatsByQuestion = normalizeQuestionStats(SnapshotOf(remoteGeneral))
           /\ ~error
           /\ ~isLoading
    /\ joined = "rejected" => NothingInstalled /\ error /\ ~isLoading
    /\ SomeFailed => NothingInstalled

\* C20: the question list and both stats maps are installed together, only
\* after every category request and both stats requests have succeeded; when
\* one of them fails none is installed and the error is set; in both
\* outcomes loading ends.
C20_LoadAllOrNothing == [](LoadAllOrNothing) /\ <>(~isLoading)

\* The load has failed on the stats of the user after every category request
\* had succeeded.
C20_Witness ==
    /\ joined = "rejected"
    /\ \A r \in Categories : requests[r] = "ok"
    /\ requests[UserStatsRequest] = "failed"
    /\ Len(storedQuestions) = 3
    /\ ~isLoading

(***************************************************************************)
(* SpecUserKey: toUserKey of firebase.ts applied to an email               *)
(***************************************************************************)
\* The characters the expression [a-z0-9] matches.
KeyCharacters ==
    { "a", "b", "c", "d", "e", "f", "g", "h", "i", "j", "k", "l", "m", "n",
      "o", "p", "q", "r", "s", "t", "u", "v", "w", "x", "y", "z",
      "0", "1", "2", "3", "4", "5", "6", "7", "8", "9" }

\* Mutant: text.replace(/[^a-z0-9]/g, ""), the characters outside [a-z0-9]
\* removed.
StripOthers(text) ==
    LET kept(character) == character \in KeyCharacters
    IN  SelectSeq(text, kept)

\* text.replace(/[^a-z0-9]/g, "_")
ReplaceOthers(text) ==
    [i \in DOMAIN text |-> IF text[i] \in KeyCharacters THEN text[i] ELSE "_"]

\* email.trim().toLowerCase().replace(/[^a-z0-9]/g, "_")
emailToKey(email) == ReplaceOthers(ToLowerCase(Trim(email)))

toUserKey(email) == emailToKey(email)

\* The characters of the emails tried.
EmailCharacters == {"a", "B", "1", "@", ".", " ", "_"}

RECURSIVE EmailsUpTo(_)
\* the emails of at most n characters
EmailsUpTo(n) ==
    IF n = 0 THEN {<<>>}
    ELSE LET shorter == EmailsUpTo(n - 1)
         IN  shorter \cup {Append(email, character) :
                              email \in shorter, character \in EmailCharacters}

UserKeyInit ==
    /\ emailArg \in EmailsUpTo(MaxEmail)
    /\ userKeyResult = <<>>
    /\ userKeyPc = "call"
    /\ CoreIdle
    /\ AutoIdle
    /\ EditIdle
    /\ ExamIdle

CallToUserKey ==
    /\ userKeyPc = "call"
    /\ userKeyResult' = toUserKey(emailArg)
    /\ userKeyPc' = "done"
    /\ UNCHANGED emailArg
    /\ UNCHANGED notKey

UserKeyNext == CallToUserKey

SpecUserKey == UserKeyInit /\ [][UserKeyNext]_vars

\* ---- Claims on the user key ----

\* C21 as stated: toUserKey(email) is the lower-cased email with every
\* character outside [a-z0-9] removed, so a user key holds characters of a-z
\* and 0-9 only.
C21_UserKeyIsStrippedEmail ==
    userKeyPc = "done" =>
        /\ userKeyResult = StripOthers(ToLowerCase(emailArg))
        /\ \A i \in DOMAIN userKeyResult : userKeyResult[i] \in KeyCharacters

\* C21, amended: toUserKey(email) is the trimmed, lower-cased email with every
\* character outside [a-z0-9] replaced by "_": it has the length of the
\* trimmed email, agrees with its lower-cased form on a-z and 0-9 and holds
\* "_" everywhere else.
C21_UserKeyReplacesOthers ==
    userKeyPc = "done" =>
        LET lowered == ToLowerCase(Trim(emailArg))
        IN  /\ Len(userKeyResult) = Len(lowered)
            /\ \A i \in DOMAIN lowered :
                   userKeyResult[i] = IF lowered[i] \in KeyCharacters
                                      THEN lowered[i] ELSE "_"
            /\ \A i \in DOMAIN userKeyResult :
                   userKeyResult[i] \in KeyCharacters \cup {"_"}

\* The key of an email with a capital, a digit and an "@" has been derived.
C21_Witness ==
    /\ userKeyPc = "done"
    /\ emailArg = <<"B", "@", "1">>
    /\ userKeyResult = <<"b", "_", "1">>

(***************************************************************************)
(* The practice view that keeps a mastery per question and moves on by     *)
(* itself after an answer (QuestionsDashboard.tsx, 395-700)                *)
(***************************************************************************)
\* The session is followed for at most MaxAutoAnswers answers.
MaxAutoAnswers == 2
\* The weight function is compared on the masteries -MaxMastery .. MaxMastery.
MaxMastery == 4

\* masteryByQuestion[questionId] ?? 0
MasteryOf(masteryMap, questionId) ==
    IF questionId \in DOMAIN masteryMap THEN masteryMap[questionId] ELSE 0

\* Mutant: a negative mastery weighs as much as mastery 0.
MasteryWeightFlat(mastery) ==
    IF mastery >= 0 THEN XDivInt(1, 1 + mastery) ELSE Fin(1, 1)

\* 1 / (1 + mastery) for mastery >= 0, 1 + Math.abs(mastery) * 1.5 otherwise
MasteryWeight(mastery) ==
    IF mastery >= 0
    THEN XDivInt(1, 1 + mastery)
    ELSE XAdd(Fin(1, 1), XMul(Fin(Abs(mastery), 1), Fin(3, 2)))

getMasteryQuestionWeight(questionId, masteryMap) ==
    MasteryWeight(MasteryOf(masteryMap, questionId))

MasteryWeightedPool(pool, masteryMap) ==
    [i \in DOMAIN pool |->
        [question |-> pool[i],
         weight |-> getMasteryQuestionWeight(pool[i].id, masteryMap)]]

\* getWeightedRandomQuestion(questions, masteryByQuestion, excludedQuestionId)
getMasteryRandomQuestion(items, masteryMap, excludedQuestionId, random) ==
    IF Len(items) = 0 THEN NoQuestion
    ELSE LET pool == SamplerPool(items, excludedQuestionId)
         IN  IF Len(pool) = 0 THEN NoQuestion
             ELSE LET weightedPool == MasteryWeightedPool(pool, masteryMap)
                      totalWeight == TotalWeight(weightedPool, Len(weightedPool))
                      randomPoint == XMul(Fin(random, RandSteps), totalWeight)
                  IN  Roulette(weightedPool, 1, randomPoint)

\* What the questions/{categoryKey} requests of this view can yield.
AutoBanks ==
    { <<Question("a", "General Information", 0),
        Question("b", "General Information", 1),
        Question("c", "Verbal Ability", 0)>>,
      <<Question("a", "General Information", 0),
        Question("c", "Verbal Ability", 1)>> }

AutoFilters == {ALL_CATEGORIES} \cup Categories

\* How often React calls the updater passed to setMasteryByQuestion: once in
\* a production build, twice under <StrictMode> in a development build.
UpdaterCalls == {1, 2}

\* A timer of window.setTimeout: its id and what its callback closes over.
Timer(id, pool, masteryMap, excludedQuestionId) ==
    [id |-> id, pool |-> pool, masteryMap |-> masteryMap,
     excluded |-> excludedQuestionId]

\* window.clearTimeout(answerTimeoutRef.current), if the ref is set
ClearedTimers == {timer \in timers : timer.id # answerTimeoutRef}

autoFilteredQuestions == FilterPool(autoQuestions, autoFilter)

AutoInit ==
    /\ autoQuestions = <<>>
    /\ autoFilter = ALL_CATEGORIES
    /\ autoCurrent = NoQuestion
    /\ autoSelected = NoSelection
    /\ masteryByQuestion = <<>>
    /\ autoIsLoading = TRUE
    /\ timers = {}
    /\ answerTimeoutRef = 0
    /\ timersSet = 0
    /\ answerLog = <<>>
    /\ autoAnswers = 0
    /\ CoreIdle
    /\ KeyIdle
    /\ EditIdle
    /\ ExamIdle

\* fetchQuestions resolves: setQuestions(responses.flat()), and the effect on
\* [filteredQuestions] draws the first question.
autoQuestionsLoaded ==
    /\ autoIsLoading
    /\ \E bank \in AutoBanks, random \in 0..(RandSteps - 1) :
          /\ autoQuestions' = bank
          /\ autoCurrent' = getMasteryRandomQuestion(
                                FilterPool(bank, autoFilter),
                                masteryByQuestion, "", random)
    /\ autoSelected' = NoSelection
    /\ autoIsLoading' = FALSE
    /\ UNCHANGED <<autoFilter, masteryByQuestion, timers, answerTimeoutRef,
                   timersSet, answerLog, autoAnswers>>
    /\ UNCHANGED notAuto

\* showAnotherQuestion(filter). When the filter changed, the effect on
\* [filteredQuestions] runs after it and draws again, without an exclusion:
\* its draw is the one that stays.
autoShowAnotherQuestion(filter) ==
    /\ timers' = ClearedTimers
    /\ autoFilter' = filter
    /\ \E random \in 0..(RandSteps - 1) :
          LET pool == FilterPool(autoQuestions, filter)
          IN  autoCurrent' =
                  IF filter # autoFilter
                  THEN getMasteryRandomQuestion(pool, masteryByQuestion, "",
                                                random)
                  ELSE getMasteryRandomQuestion(pool, masteryByQuestion,
                                                autoCurrent.id, random)
    /\ autoSelected' = NoSelection
    /\ UNCHANGED <<autoQuestions, masteryByQuestion, autoIsLoading,
                   answerTimeoutRef, timersSet, answerLog, autoAnswers>>
    /\ UNCHANGED notAuto

\* Mutant: a wrong answer leaves the mastery as it is.
MasteryAfterCorrectOnly(previous, questionId, answeredCorrectly) ==
    [id \in DOMAIN previous \cup {questionId} |->
        IF id = questionId
        THEN MasteryOf(previous, id) + (IF answeredCorrectly THEN 1 ELSE 0)
        ELSE previous[id]]

\* { ...previous, [id]: (previous[id] ?? 0) + (answeredCorrectly ? 1 : -1) }
MasteryAfter(previous, questionId, answeredCorrectly) ==
    [id \in DOMAIN previous \cup {questionId} |->
        IF id = questionId
        THEN MasteryOf(previous, id) + (IF answeredCorrectly THEN 1 ELSE -1)
        ELSE previous[id]]

\* handleAnswerSelect(index); the updater of setMasteryByQuestion, which sets
\* the timer, is called updaterCalls times.
autoHandleAnswerSelect(index, updaterCalls) ==
    /\ autoCurrent # NoQuestion
    /\ autoSelected = NoSelection
    /\ autoAnswers < MaxAutoAnswers
    /\ LET answeredCorrectly == index = autoCurrent.correctIndex
           nextMap == MasteryAfter(masteryByQuestion, autoCurrent.id,
                                   answeredCorrectly)
           created == {Timer(timersSet + k, autoFilteredQuestions, nextMap,
                             autoCurrent.id) : k \in 1..updaterCalls}
       IN  /\ masteryByQuestion' = nextMap
           /\ timers' = ClearedTimers \cup created
           /\ answerTimeoutRef' = timersSet + updaterCalls
           /\ timersSet' = timersSet + updaterCalls
           /\ answerLog' = RecordInMemory(answerLog, autoCurrent.id,
                                          answeredCorrectly)
    /\ autoSelected' = index
    /\ autoAnswers' = autoAnswers + 1
    /\ UNCHANGED <<autoQuestions, autoFilter, autoCurrent, autoIsLoading>>
    /\ UNCHANGED notAuto

\* A timer fires after FEEDBACK_DELAY_MS:
\* moveToNextQuestion(filteredQuestions, nextMap, currentQuestion.id)
answerTimeoutFired ==
    /\ \E timer \in timers, random \in 0..(RandSteps - 1) :
          /\ timers' = timers \ {timer}
          /\ autoCurrent' = getMasteryRandomQuestion(
                                timer.pool, timer.masteryMap, timer.excluded,
                                random)
    /\ autoSelected' = NoSelection
    /\ UNCHANGED <<autoQuestions, autoFilter, masteryByQuestion, autoIsLoading,
                   answerTimeoutRef, timersSet, answerLog, autoAnswers>>
    /\ UNCHANGED notAuto

AutoNext ==
    \/ autoQuestionsLoaded
    \/ \E filter \in AutoFilters : autoShowAnotherQuestion(filter)
    \/ \E index \in OptionIndices, updaterCalls \in UpdaterCalls :
          autoHandleAnswerSelect(index, updaterCalls)
    \/ answerTimeoutFired

SpecAuto == AutoInit /\ [][AutoNext]_vars

\* C22: after any sequence of answers the mastery of a question is the number
\* of correct answers minus the number of wrong answers given to it in the
\* session, and the weight is strictly positive and strictly decreasing in
\* the mastery.
C22_MasteryAndWeight ==
    /\ \A id \in Ids :
          MasteryOf(masteryByQuestion, id) =
              StatOf(answerLog, id).correct - StatOf(answerLog, id).wrong
    /\ \A mastery \in (-MaxMastery)..MaxMastery :
          /\ XLess(Fin(0, 1), MasteryWeight(mastery))
          /\ XLess(MasteryWeight(mastery + 1), MasteryWeight(mastery))

\* A question answered wrongly and another answered correctly.
C22_Witness ==
    /\ \E id \in Ids : MasteryOf(masteryByQuestion, id) = -1
    /\ \E id \in Ids : MasteryOf(masteryByQuestion, id) = 1

\* C24: once the filter has been changed while a question was answered, no
\* timer is left whose firing would replace the question chosen for the new
\* filter by one drawn from the old filter's pool: every pending auto-advance
\* draws from the pool of the active filter, and the question shown belongs
\* to it.
C24_FilterChangeCancelsAutoAdvance ==
    /\ \A timer \in timers : timer.pool = autoFilteredQuestions
    /\ autoCurrent # NoQuestion =>
          \E i \in DOMAIN autoFilteredQuestions :
              autoFilteredQuestions[i] = autoCurrent

(***************************************************************************)
(* The question box of the practice view over an empty pool                *)
(***************************************************************************)
\* What the question box renders (Questioner.tsx, 604-610).
QuestionBox ==
    IF isLoading THEN "Loading question..."
    ELSE IF error THEN "Unable to load questions right now."
    ELSE IF currentQuestion = NoQuestion
         THEN "No questions found for the selected categories."
         ELSE "question"

\* C23: for an empty list getWeightedRandomQuestion returns null, for the
\* stats maps of every state of the session and every excluded id and draw;
\* and once the practice view has loaded and
\* drawn from an empty pool (no answered question is being shown) it holds no
\* current question and its question box shows the "no questions" text.
C23_EmptyListGivesNoQuestion ==
    /\ \A excluded \in Ids \cup {""}, random \in 0..(RandSteps - 1) :
          getWeightedRandomQuestion(<<>>, userStatsByQuestion,
                                    generalStatsByQuestion, excluded,
                                    random) = NoQuestion
    /\ (/\ ~isLoading /\ ~error /\ ~effectDue
        /\ selectedIndex = NoSelection
        /\ filteredQuestions = <<>>) =>
          /\ currentQuestion = NoQuestion
          /\ QuestionBox = "No questions found for the selected categories."

\* A loaded bank with questions, filtered down to an empty pool after a
\* question had been shown and answered.
C23_Witness ==
    /\ ~isLoading /\ ~error /\ ~effectDue
    /\ questions # <<>>
    /\ filteredQuestions = <<>>
    /\ Len(calls) > 0
    /\ selectedIndex = NoSelection
    /\ currentQuestion = NoQuestion

(***************************************************************************)
(* SpecEdit: the editor of the questions dashboard saving one published    *)
(* question (QuestionsDashboard.tsx, 154-237)                              *)
(***************************************************************************)
\* handleSaveQuestion is followed for at most MaxSaves calls.
MaxSaves == 2
\* A record under questions/{categoryKey}/{id}; hint "" and createdAt 0 stand
\* for fields the record does not have, times count from 1.
StoredQuestion(question, category, correctIndex, hint, createdAt, updatedAt) ==
    [present |-> TRUE, question |-> question, category |-> category,
     options |-> <<"x", "y">>, correctIndex |-> correctIndex, hint |-> hint,
     createdAt |-> createdAt, updatedAt |-> updatedAt]

\* No record under the path.
NothingStored ==
    [present |-> FALSE, question |-> <<>>, category |-> "", options |-> <<>>,
     correctIndex |-> 0, hint |-> "", createdAt |-> 0, updatedAt |-> 0]

\* null, where the code holds a QuestionEditorState | null
NoEditor ==
    [open |-> FALSE, originalCategory |-> "", category |-> "",
     question |-> <<>>, options |-> <<>>, correctIndex |-> 0, createdAt |-> 0]

\* No save in flight.
NoSave == [pc |-> "none", editor |-> NoEditor]

\* The categories under which the question is stored.
StoredUnder == {category \in Categories : editStored[category].present}

\* The row of the dashboard for the record of a category (normalizeQuestions
\* keeps id, category, question, options, correctIndex and a numeric
\* createdAt).
EditorRowOf(category, stored) ==
    [category |-> category, question |-> Trim(stored.question),
     options |-> stored.options, correctIndex |-> stored.correctIndex,
     createdAt |-> stored.createdAt]

\* fetchDashboardData: the rows of what is stored
LoadedRows == {EditorRowOf(category, editStored[category]) : category \in StoredUnder}

\* const payload = { question, category, options, correctIndex, createdAt,
\* updatedAt }; the PUT replaces the record by it.
Payload(state, now) ==
    [present |-> TRUE, question |-> Trim(state.question),
     category |-> state.category, options |-> state.options,
     correctIndex |-> state.correctIndex, hint |-> "",
     createdAt |-> IF state.createdAt # 0 THEN state.createdAt ELSE now,
     updatedAt |-> now]

\* The texts typed into the question field.
EditorTexts == {<<"q">>, <<"r">>, <<" ">>}

EditInit ==
    /\ \E category \in Categories, hint \in {"", "h"},
          createdAt \in {0, 1} :
          editStored =
              [c \in Categories |->
                  IF c = category
                  THEN StoredQuestion(<<"q">>, c, 0, hint, createdAt, 0)
                  ELSE NothingStored]
    /\ editRows = LoadedRows
    /\ editor = NoEditor
    /\ editIsSaving = FALSE
    /\ saveInFlight = NoSave
    /\ editNow = 2
    /\ editBefore = NothingStored
    /\ editLastOp = [kind |-> "", moved |-> FALSE]
    /\ editSaves = 0
    /\ CoreIdle
    /\ KeyIdle
    /\ AutoIdle
    /\ ExamIdle

EditUntouched(kept) == UNCHANGED kept /\ UNCHANGED notEdit

\* openEditor(question), isAdmin being true
openEditor ==
    /\ \E row \in editRows :
          editor' = [open |-> TRUE, originalCategory |-> row.category,
                     category |-> row.category, question |-> row.question,
                     options |-> row.options,
                     correctIndex |-> row.correctIndex,
                     createdAt |-> row.createdAt]
    /\ EditUntouched(<<editStored, editRows, editIsSaving, saveInFlight,
                       editNow, editBefore, editLastOp, editSaves>>)

\* The fields of the editor form: setEditor({ ...editor, ... })
changeEditor ==
    /\ editor.open
    /\ \/ \E category \in Categories :
             editor' = [editor EXCEPT !.category = category]
       \/ \E text \in EditorTexts : editor' = [editor EXCEPT !.question = text]
       \/ \E index \in OptionIndices :
             editor' = [editor EXCEPT !.correctIndex = index]
    /\ editor' # editor
    /\ EditUntouched(<<editStored, editRows, editIsSaving, saveInFlight,
                       editNow, editBefore, editLastOp, editSaves>>)

\* handleSaveQuestion up to its first request; the Save button is disabled
\* while isSaving.
handleSaveQuestion ==
    /\ editor.open
    /\ ~editIsSaving
    /\ editSaves < MaxSaves
    /\ editSaves' = editSaves + 1
    /\ IF Trim(editor.question) = <<>>
       THEN /\ editLastOp' = [kind |-> "alert", moved |-> FALSE]
            /\ UNCHANGED <<editIsSaving, saveInFlight, editBefore>>
       ELSE /\ editIsSaving' = TRUE
            /\ saveInFlight' =
                   [pc |-> IF editor.originalCategory # editor.category
                           THEN "delete" ELSE "put",
                    editor |-> editor]
            /\ editBefore' = editStored[editor.originalCategory]
            /\ editLastOp' = [kind |-> "saving", moved |-> FALSE]
    /\ EditUntouched(<<editStored, editRows, editor, editNow>>)

\* The DELETE of the record under the previous category is answered ok.
deletePreviousDone ==
    /\ saveInFlight.pc = "delete"
    /\ editStored' = [editStored EXCEPT
                         ![saveInFlight.editor.originalCategory] = NothingStored]
    /\ saveInFlight' = [saveInFlight EXCEPT !.pc = "put"]
    /\ EditUntouched(<<editRows, editor, editIsSaving, editNow, editBefore,
                       editLastOp, editSaves>>)

\* A request fails: the catch alerts, the finally resets isSaving.
saveRequestFailed ==
    /\ saveInFlight.pc \in {"delete", "put"}
    /\ saveInFlight' = NoSave
    /\ editIsSaving' = FALSE
    /\ editLastOp' =
           [kind |-> "failed",
            moved |-> saveInFlight.editor.originalCategory #
                          saveInFlight.editor.category]
    /\ EditUntouched(<<editStored, editRows, editor, editNow, editBefore,
                       editSaves>>)

\* The PUT is answered ok: setEditor(null), fetchDashboardData (which may
\* fail and then leaves the rows as they were), finally.
saveQuestionDone ==
    /\ saveInFlight.pc = "put"
    /\ editStored' =
           [editStored EXCEPT
               ![saveInFlight.editor.category] =
                   Payload(saveInFlight.editor, editNow)]
    /\ editNow' = editNow + 1
    /\ editor' = NoEditor
    /\ \/ editRows' = LoadedRows'
       \/ editRows' = editRows
    /\ saveInFlight' = NoSave
    /\ editIsSaving' = FALSE
    /\ editLastOp' =
           [kind |-> "saved",
            moved |-> saveInFlight.editor.originalCategory #
                          saveInFlight.editor.category]
    /\ EditUntouched(<<editBefore, editSaves>>)

EditNext ==
    \/ openEditor
    \/ changeEditor
    \/ handleSaveQuestion
    \/ deletePreviousDone
    \/ saveRequestFailed
    \/ saveQuestionDone

SpecEdit == EditInit /\ [][EditNext]_vars

\* C26: when a save that changed the category has settled, with or without a
\* failed request, the question is stored under exactly one category.
C26_MovedQuestionUnderOneCategory ==
    (editLastOp.kind \in {"saved", "failed"} /\ editLastOp.moved) =>
        Cardinality(StoredUnder) = 1

\* C27: after a save the stored question has the hint and the creation time
\* of the record the save replaced; only question, category, options,
\* correctIndex and updatedAt are new.
C27_SaveKeepsOtherFields ==
    editLastOp.kind = "saved" =>
        \A category \in StoredUnder :
            /\ editStored[category].hint = editBefore.hint
            /\ editStored[category].createdAt = editBefore.createdAt

(***************************************************************************)
(* SpecExam: the mock exam builder (MockExam.tsx) and the history page     *)
(* (MockExamHistory.tsx) of one user, one of the two pages mounted at a    *)
(* time (App.tsx, pageContent)                                             *)
(***************************************************************************)
\* useState(10) of questionCount
InitialQuestionCount == 10
\* The values typed into the question count field are 0 .. MaxTyped.
MaxTyped == 2

\* The question bank the exam builder loads.
ExamBank ==
    <<ExamQuestion("a", "General Information", 0),
      ExamQuestion("c", "Verbal Ability", 1)>>

\* allQuestions.filter((question) => selectedCategories.includes(question.category))
availableQuestions ==
    SelectSeq(allQuestions,
              LAMBDA question :
                  IncludesCategory(examSelectedCategories, question.category))

\* Math.max(availableQuestions.length, 1)
maxQuestionCount ==
    IF Len(availableQuestions) > 1 THEN Len(availableQuestions) ELSE 1

canStartExam ==
    /\ Len(examSelectedCategories) > 0
    /\ questionCount > 0
    /\ Len(availableQuestions) >= questionCount

\* Math.min(Math.max(value, 1), maxQuestionCount)
ClampedCount(value) ==
    LET atLeastOne == IF value > 1 THEN value ELSE 1
    IN  IF atLeastOne < maxQuestionCount THEN atLeastOne ELSE maxQuestionCount

\* getShuffledQuestions(items).slice(0, n): the first n of any order of items
ShuffledSlices(items, n) ==
    {order \in Arrangements({items[i] : i \in DOMAIN items}) : Len(order) = n}

\* answers[question.id] (undefined is no index)
ExamAnswerOf(question) ==
    IF question.id \in DOMAIN examAnswers THEN examAnswers[question.id]
    ELSE NoSelection

\* Mutant: Submit Exam is enabled as soon as one question is answered.
SubmitEnabledOnceAnswered ==
    /\ Len(examPaper) > 0
    /\ ~isSubmitted
    /\ ~isSavingResult
    /\ Cardinality(DOMAIN examAnswers) > 0

\* Submit Exam is rendered and enabled:
\* Object.keys(answers).length === examPaper.length && !isSavingResult
SubmitEnabled ==
    /\ Len(examPaper) > 0
    /\ ~isSubmitted
    /\ ~isSavingResult
    /\ Cardinality(DOMAIN examAnswers) = Len(examPaper)

\* The state MockExam is constructed in, and the one it is left in when the
\* page is not mounted.
ExamMounted(loading) ==
    /\ allQuestions = <<>>
    /\ examSelectedCategories = <<QUESTION_CATEGORIES[1]>>
    /\ questionCount = InitialQuestionCount
    /\ examPaper = <<>>
    /\ examAnswers = <<>>
    /\ isSubmitted = FALSE
    /\ isSavingResult = FALSE
    /\ examPending = <<>>
    /\ examIsLoading = loading

\* MockExam is mounted anew, or unmounted, by the step.
ExamRemounted(loading) ==
    /\ allQuestions' = <<>>
    /\ examSelectedCategories' = <<QUESTION_CATEGORIES[1]>>
    /\ questionCount' = InitialQuestionCount
    /\ examPaper' = <<>>
    /\ examAnswers' = <<>>
    /\ isSubmitted' = FALSE
    /\ isSavingResult' = FALSE
    /\ examPending' = <<>>
    /\ examIsLoading' = loading

ExamInit ==
    /\ currentPage = "mock-exam"
    /\ ExamMounted(TRUE)
    /\ userEmail \in {"", "u1"}
    /\ remoteHistory = <<>>
    /\ savedRecords = <<>>
    /\ history = <<>>
    /\ selectedAttemptId = NoAttempt
    /\ retakeAnswers = <<>>
    /\ isRetakeMode = FALSE
    /\ isSavingRetake = FALSE
    /\ historyIsLoading = FALSE
    /\ historyError = FALSE
    /\ SamplerIdle("idle")
    /\ WeightIdle("idle")
    /\ StoreIdle
    /\ PracticeIdle
    /\ DashboardIdle
    /\ FormsIdle
    /\ KeyIdle
    /\ AutoIdle
    /\ EditIdle

\* What the actions of MockExam leave alone.
ExamUntouched(kept) ==
    /\ UNCHANGED kept
    /\ UNCHANGED <<currentPage, userEmail, history, selectedAttemptId,
                   retakeAnswers, isRetakeMode, isSavingRetake,
                   historyIsLoading, historyError>>
    /\ UNCHANGED notExam

\* fetchQuestions of MockExam resolves.
examQuestionsLoaded ==
    /\ currentPage = "mock-exam"
    /\ examIsLoading
    /\ allQuestions' = ExamBank
    /\ examIsLoading' = FALSE
    /\ ExamUntouched(<<examSelectedCategories, questionCount, examPaper,
                       examAnswers, isSubmitted, isSavingResult, examPending,
                       remoteHistory, savedRecords>>)

toggleCategory(category) ==
    /\ currentPage = "mock-exam"
    /\ userEmail # ""
    /\ ~examIsLoading
    /\ examSelectedCategories' =
           IF IncludesCategory(examSelectedCategories, category)
           THEN SelectSeq(examSelectedCategories,
                          LAMBDA item : item # category)
           ELSE Append(examSelectedCategories, category)
    /\ ExamUntouched(<<allQuestions, questionCount, examPaper, examAnswers,
                       isSubmitted, isSavingResult, examPending, examIsLoading,
                       remoteHistory, savedRecords>>)

\* onChange of the question count field
changeQuestionCount(typed) ==
    /\ currentPage = "mock-exam"
    /\ userEmail # ""
    /\ ~examIsLoading
    /\ questionCount' = ClampedCount(typed)
    /\ questionCount' # questionCount
    /\ ExamUntouched(<<allQuestions, examSelectedCategories, examPaper,
                       examAnswers, isSubmitted, isSavingResult, examPending,
                       examIsLoading, remoteHistory, savedRecords>>)

startExam ==
    /\ currentPage = "mock-exam"
    /\ userEmail # ""
    /\ ~examIsLoading
    /\ canStartExam
    /\ examPaper' \in ShuffledSlices(availableQuestions,
                                         ClampedCount(questionCount))
    /\ examAnswers' = <<>>
    /\ isSubmitted' = FALSE
    /\ ExamUntouched(<<allQuestions, examSelectedCategories, questionCount,
                       isSavingResult, examPending, examIsLoading,
                       remoteHistory, savedRecords>>)

\* An option of the n-th question of the exam is chosen.
answerExam(n, optionIndex) ==
    /\ currentPage = "mock-exam"
    /\ userEmail # ""
    /\ ~isSubmitted
    /\ n \in DOMAIN examPaper
    /\ examAnswers' =
           [id \in DOMAIN examAnswers \cup {examPaper[n].id} |->
               IF id = examPaper[n].id THEN optionIndex
               ELSE examAnswers[id]]
    /\ examAnswers' # examAnswers
    /\ ExamUntouched(<<allQuestions, examSelectedCategories, questionCount,
                       examPaper, isSubmitted, isSavingResult, examPending,
                       examIsLoading, remoteHistory, savedRecords>>)

\* examPaper is examQuestions. The record submitExam of MockExam hands to saveMockExamRecord.
SubmittedRecord ==
    [totalQuestions |-> Len(examPaper),
     score |-> Cardinality({i \in DOMAIN examPaper :
                   ExamAnswerOf(examPaper[i])
                       = examPaper[i].correctIndex}),
     selectedCategories |-> examSelectedCategories,
     submittedAt |-> NextTime,
     isRetake |-> FALSE,
     retakeOfAttemptId |-> NoAttempt,
     questions |-> [i \in DOMAIN examPaper |->
         [id |-> examPaper[i].id,
          question |-> examPaper[i].question,
          category |-> examPaper[i].category,
          options |-> examPaper[i].options,
          correctIndex |-> examPaper[i].correctIndex,
          selectedIndex |-> ExamAnswerOf(examPaper[i])]]]

\* submitExam of MockExam up to the await of saveMockExamRecord. One exam of
\* the user and the retakes of it are followed: the exam is submitted into an
\* empty history, the retakes up to MaxAttempts records.
examSubmit ==
    /\ currentPage = "mock-exam"
    /\ userEmail # ""
    /\ SubmitEnabled
    /\ remoteHistory = <<>>
    /\ isSavingResult' = TRUE
    /\ examPending' = <<SubmittedRecord>>
    /\ ExamUntouched(<<allQuestions, examSelectedCategories, questionCount,
                       examPaper, examAnswers, isSubmitted, examIsLoading,
                       remoteHistory, savedRecords>>)

\* saveMockExamRecord resolves: setIsSubmitted(true), finally
examSubmitSaved ==
    /\ examPending # <<>>
    /\ saveMockExamRecord(examPending[1])
    /\ examPending' = <<>>
    /\ isSubmitted' = TRUE
    /\ isSavingResult' = FALSE
    /\ ExamUntouched(<<allQuestions, examSelectedCategories, questionCount,
                       examPaper, examAnswers, examIsLoading>>)

\* saveMockExamRecord rejects: catch (the error text is not modelled), finally
examSubmitFailed ==
    /\ examPending # <<>>
    /\ examPending' = <<>>
    /\ isSavingResult' = FALSE
    /\ ExamUntouched(<<allQuestions, examSelectedCategories, questionCount,
                       examPaper, examAnswers, isSubmitted, examIsLoading,
                       remoteHistory, savedRecords>>)

\* location.hash becomes #/history: MockExam is unmounted, MockExamHistory
\* mounted and its loadHistory started.
goToHistory ==
    /\ currentPage = "mock-exam"
    /\ examPending = <<>>
    /\ currentPage' = "history"
    /\ ExamRemounted(FALSE)
    /\ history' = <<>>
    /\ selectedAttemptId' = NoAttempt
    /\ retakeAnswers' = <<>>
    /\ isRetakeMode' = FALSE
    /\ isSavingRetake' = FALSE
    /\ historyIsLoading' = TRUE
    /\ historyError' = FALSE
    /\ UNCHANGED <<userEmail, remoteHistory, savedRecords>>
    /\ UNCHANGED notExam

\* location.hash becomes #/mock-exam: MockExamHistory is unmounted, MockExam
\* mounted and its fetchQuestions started.
goToMockExam ==
    /\ currentPage = "history"
    /\ ~isSavingRetake
    /\ ~historyIsLoading
    /\ currentPage' = "mock-exam"
    /\ ExamRemounted(TRUE)
    /\ history' = <<>>
    /\ selectedAttemptId' = NoAttempt
    /\ retakeAnswers' = <<>>
    /\ isRetakeMode' = FALSE
    /\ isSavingRetake' = FALSE
    /\ historyIsLoading' = FALSE
    /\ historyError' = FALSE
    /\ UNCHANGED <<userEmail, remoteHistory, savedRecords>>
    /\ UNCHANGED notExam

\* The handlers of the history page, which is mounted.
onHistoryPage ==
    /\ currentPage = "history"
    /\ \/ loadHistoryLoaded
       \/ loadHistoryFailed
       \/ \E i \in DOMAIN history : viewAttempt(i)
       \/ closeModal
       \/ retakeExam
       \/ \E n \in 1..2, optionIndex \in OptionIndices :
              answerRetake(n, optionIndex)
       \/ submitRetake
       \/ submitRetakeFailed
       \/ submitRetakeReloaded
       \/ submitRetakeReloadFailed

ExamNext ==
    \/ examQuestionsLoaded
    \/ \E category \in Categories : toggleCategory(category)
    \/ \E typed \in 0..MaxTyped : changeQuestionCount(typed)
    \/ startExam
    \/ \E n \in 1..2, optionIndex \in OptionIndices : answerExam(n, optionIndex)
    \/ examSubmit
    \/ examSubmitSaved
    \/ examSubmitFailed
    \/ goToHistory
    \/ goToMockExam
    \/ onHistoryPage

SpecExam == ExamInit /\ [][ExamNext]_vars

\* ---- Claims on the records of the mock exam ----

\* The record's score is the number of its questions answered correctly, its
\* totalQuestions their number, each selected index an index of the options.
ConsistentRecord(record) ==
    /\ record.totalQuestions = Len(record.questions)
    /\ \A i \in DOMAIN record.questions :
          /\ record.questions[i].selectedIndex >= 0
          /\ record.questions[i].selectedIndex
                 < Len(record.questions[i].options)
    /\ record.score =
          Cardinality({i \in DOMAIN record.questions :
              record.questions[i].selectedIndex
                  = record.questions[i].correctIndex})
    /\ record.score >= 0
    /\ record.score <= record.totalQuestions

\* C28: every record saved by submitExam or submitRetake is internally
\* consistent: totalQuestions is the number of embedded questions, every
\* embedded question has a selected index that is an index of its options,
\* and score counts the questions whose selected index is the correct one.
C28_SavedRecordsConsistent ==
    \A i \in DOMAIN savedRecords : ConsistentRecord(savedRecords[i])

\* A two-question exam saved with one correct answer, and a retake of it
\* saved with another score.
C28_Witness ==
    /\ Len(savedRecords) = 2
    /\ ~savedRecords[1].isRetake
    /\ savedRecords[1].totalQuestions = 2
    /\ savedRecords[1].score = 1
    /\ savedRecords[2].isRetake
    /\ savedRecords[2].score # savedRecords[1].score

\* C29: in every record saved by submitExam the category of each embedded
\* question is one of the record's selectedCategories.
C29_QuestionCategoriesSelected ==
    \A i \in DOMAIN savedRecords :
        ~savedRecords[i].isRetake =>
            \A n \in DOMAIN savedRecords[i].questions :
                IncludesCategory(savedRecords[i].selectedCategories,
                                 savedRecords[i].questions[n].category)

(***************************************************************************)
(* SpecSession: the practice view staying mounted while the learner logs   *)
(* in and out (App.tsx, 82-122; Questioner.tsx, 41-58, 249-291)            *)
(***************************************************************************)
\* What handleLogin and handleLogout leave alone: App renders <Questioner />
\* at the same place before and after, so the view keeps its state and its
\* mount-only effect does not run again.
SessionUntouched ==
    /\ UNCHANGED <<storedQuestions, questions, activeFilter,
                   isMultiSelectEnabled, selectedCategories, currentQuestion,
                   selectedIndex, userStatsByQuestion, generalStatsByQuestion,
                   isLoading, error, effectDue, nextFrom>>
    /\ UNCHANGED storeVars
    /\ UNCHANGED notPractice

\* handleLogin(role, email): the session is written to sessionStorage, from
\* where getCurrentUserKey reads it.
handleLogin(userKey) ==
    /\ sessionUserKey = ""
    /\ sessionUserKey' = userKey
    /\ SessionUntouched

\* handleLogout: the session is removed from sessionStorage.
handleLogout ==
    /\ sessionUserKey # ""
    /\ sessionUserKey' = ""
    /\ SessionUntouched

SessionNext ==
    \/ PracticeNext
    \/ handleLogin("u1")
    \/ handleLogout

SpecSession == PracticeInit /\ [][SessionNext]_vars

\* The stats stored for the user before the session, as getUserQuestionStats
\* returns them.
StoredStatsOf(userKey) == normalizeQuestionStats(SnapshotOf(usersBefore[userKey]))

\* C30: once the practice view has loaded, its in-memory user stats belong to
\* the learner logged in: they are empty when nobody is logged in, and
\* otherwise hold what is stored for the session's user key (with the answers
\* given since on top).
C30_UserStatsOfCurrentUser ==
    (~isLoading /\ ~error) =>
        IF sessionUserKey = ""
        THEN userStatsByQuestion = <<>>
        ELSE \A id \in DOMAIN StoredStatsOf(sessionUserKey) :
                /\ StatOf(userStatsByQuestion, id).correct
                       >= StoredStatsOf(sessionUserKey)[id].correct
                /\ StatOf(userStatsByQuestion, id).wrong
                       >= StoredStatsOf(sessionUserKey)[id].wrong

====
